---- MODULE Spec2Model ----
(***************************************************************************)
(* Failure-diagnosis pipeline of the CI/CD pipeline assistant              *)
(* (src/agent-container): log analysis, repository structure analysis,     *)
(* suspect-file identification and the supervisor that sequences them.     *)
(*                                                                         *)
(* Text is modelled as a sequence of one-character strings, so that        *)
(* strip(), lower(), endswith() and the `in` substring test are computed   *)
(* and not assumed.  Instants are milliseconds relative to a fixed epoch.  *)
(* An optional value (Python None or a value) is a record [some, val].     *)
(***************************************************************************)
EXTENDS Integers, Sequences, FiniteSets, TLC

VARIABLES
    \* ---- solution_provider_function.py : one _generate_solution call
    sp_pc,              \* position inside _generate_solution
    sp_error_context,   \* shape of the error_context argument
    sp_repo_structure,  \* the repo_structure argument: [shape, record]
    sp_response,        \* what _invoke_bedrock_simple returned
    sp_bedrock_failed,  \* whether the inference endpoint raised in that call
    problematic_file,   \* result of _identify_problematic_file
    sp_identify_raised, \* whether _identify_problematic_file raised
    sp_calls,           \* external calls made, in order
    \* ---- log_analysis_function.py : one analyze_logs call
    lg_pc,              \* position inside analyze_logs
    pipeline_event,     \* detail of the failure event
    lg_pipeline_name,   \* error_info["pipeline_name"]
    registry,           \* pipeline-execution registry: [raises, executions]
    ssm,                \* configuration store: parameter path -> entry
    store,              \* log store: log group -> [streams, events]
    start_time,         \* execution window (optional instants)
    end_time,
    ssm_calls,          \* parameter paths read, in order
    log_groups_list,    \* resolved log groups
    start_ms,           \* window used by _fetch_logs_in_timeframe
    end_ms,
    gi,                 \* index of the log group being fetched
    lg_kind,            \* "event" or "native": how the group is fetched
    lg_events,          \* events list of the running pagination loop
    lg_cursor,          \* events of the stream already returned (next_token)
    all_logs,           \* all_logs, in arrival order
    log_requests,       \* calls made to the log store, in order
    upstream_ok,        \* the log store answered every call, in non-empty
                        \* pages, with a token while events remained
    log_bundle,         \* result of _fetch_logs_in_timeframe
    lg_result,          \* result of analyze_logs
    \* ---- repo_structure_function.py : one analyze_repository_structure call
    rp_pc,              \* position inside analyze_repository_structure
    rp_secret,          \* secret store: "unset", "raise" or "ok"
    rp_repo_url,        \* path part of credentials["repo_url"]
    rp_hosting,         \* hosting API: [tree_ok, tree, unreadable]
    rp_calls,           \* external calls made, in order
    rp_tree_data,       \* tree_data once fetched
    rp_result,          \* result of analyze_repository_structure
    \* ---- supervisor_function.py : one orchestrate_analysis call
    or_pc,              \* position inside orchestrate_analysis
    or_payload,         \* shape of the payload
    or_env,             \* outcomes of the external calls of the run
    or_branch_name,     \* branch_name
    or_error_info,      \* error_info
    or_repo_structure,  \* result of handle_repo_structure
    or_analyzed_logs,   \* result of handle_log_analysis
    or_solution,        \* result of handle_solution_provider
    or_trace,           \* steps entered, in order
    or_escaped,         \* whether an exception left orchestrate_analysis
    or_result           \* what orchestrate_analysis returned

spVars == <<sp_pc, sp_error_context, sp_repo_structure, sp_response,
            sp_bedrock_failed, problematic_file, sp_identify_raised, sp_calls>>

lgVars == <<lg_pc, pipeline_event, lg_pipeline_name, registry, ssm, store,
            start_time, end_time, ssm_calls, log_groups_list, start_ms, end_ms,
            gi, lg_kind, lg_events, lg_cursor, all_logs, log_requests,
            upstream_ok, log_bundle, lg_result>>

rpVars == <<rp_pc, rp_secret, rp_repo_url, rp_hosting, rp_calls, rp_tree_data,
            rp_result>>

orVars == <<or_pc, or_payload, or_env, or_branch_name, or_error_info,
            or_repo_structure, or_analyzed_logs, or_solution, or_trace,
            or_escaped, or_result>>

vars == <<spVars, lgVars, rpVars, orVars>>

(***************************************************************************)
(* Optional values and text helpers                                        *)
(***************************************************************************)
None == [some |-> FALSE, val |-> <<>>]

Some(v) == [some |-> TRUE, val |-> v]

\* Characters str.strip() removes when called without an argument.
Whitespace == {" ", "\t", "\n"}

RECURSIVE LStripChars(_, _)
LStripChars(s, chars) ==
    IF s # <<>> /\ Head(s) \in chars THEN LStripChars(Tail(s), chars) ELSE s

RECURSIVE RStripChars(_, _)
RStripChars(s, chars) ==
    IF s # <<>> /\ s[Len(s)] \in chars
    THEN RStripChars(SubSeq(s, 1, Len(s) - 1), chars)
    ELSE s

\* str.strip(chars): remove leading and trailing characters of the set.
StripChars(s, chars) == RStripChars(LStripChars(s, chars), chars)

\* str.strip()
Strip(s) == StripChars(s, Whitespace)

\* x in list
InList(x, list) == \E i \in 1..Len(list) : list[i] = x

\* All sequences over S of length at most n.
RECURSIVE SeqsUpTo(_, _)
SeqsUpTo(S, n) ==
    IF n = 0 THEN {<<>>}
    ELSE LET shorter == SeqsUpTo(S, n - 1)
         IN  shorter \cup
             {Append(p, x) : p \in {q \in shorter : Len(q) = n - 1},
                             x \in S}

\* needle in hay, for two texts
IsSubstring(needle, hay) ==
    \E i \in 0..(Len(hay) - Len(needle)) :
        SubSeq(hay, i + 1, i + Len(needle)) = needle

\* hay.endswith(suffix)
EndsWith(hay, suffix) ==
    /\ Len(suffix) <= Len(hay)
    /\ SubSeq(hay, Len(hay) - Len(suffix) + 1, Len(hay)) = suffix

UpperLetters == <<"A", "B", "C", "D", "E", "F", "G", "H", "I", "J", "K", "L", "M", "N", "O", "P", "Q", "R", "S", "T", "U", "V", "W", "X", "Y", "Z">> (* ABCDEFGHIJKLMNOPQRSTUVWXYZ *)

LowerLetters == <<"a", "b", "c", "d", "e", "f", "g", "h", "i", "j", "k", "l", "m", "n", "o", "p", "q", "r", "s", "t", "u", "v", "w", "x", "y", "z">> (* abcdefghijklmnopqrstuvwxyz *)

LowerChar(c) ==
    IF \E i \in 1..Len(UpperLetters) : UpperLetters[i] = c
    THEN LowerLetters[CHOOSE i \in 1..Len(UpperLetters) : UpperLetters[i] = c]
    ELSE c

\* str.lower()
Lower(s) == [i \in 1..Len(s) |-> LowerChar(s[i])]

\* An optional instant.
NoTime == [some |-> FALSE, val |-> 0]

SomeTime(t) == [some |-> TRUE, val |-> t]

(***************************************************************************)
(* solution_provider_function.py                                           *)
(***************************************************************************)
\* Longest file list drawn for one call.
MaxFiles == 2

NONE == <<"N", "O", "N", "E">>

\* What _invoke_bedrock_simple returns when the endpoint raises.
BedrockSimpleError == <<"E", "r", "r", "o", "r">>

\* File names a repository may hold (file_paths entries).
FileNames ==
    {<<"a">>, <<"a", "b">>, <<" ", "a">>, NONE, BedrockSimpleError,
     <<"a", "\"", "\\", "b">>}

\* Texts the language model may answer with, before padding.
ModelCores == FileNames \cup {<<"b">>, <<>>}

ModelPads == {<<>>, <<" ">>, <<"\"">>, <<"\n", "\"">>}

RevPad(p) == [i \in 1..Len(p) |-> p[Len(p) + 1 - i]]

\* Every text the model may return: a core, padded with whitespace and quotes.
ModelResponses ==
    {pre \o core \o RevPad(post) :
        pre \in ModelPads, post \in ModelPads, core \in ModelCores}

\* Shapes of a stage result handed to the solution provider: the raw record,
\* the record serialized inside a 'body' string, a 'body' string that does
\* not parse, and a value that is no mapping at all.
PayloadShapes == {"raw", "wrapped", "badjson", "notdict"}

\* json.dumps of a text: quoted, with quote, backslash and newline escaped.
RECURSIVE JsonEscape(_)
JsonEscape(s) ==
    IF s = <<>> THEN <<>>
    ELSE (CASE Head(s) = "\""  -> <<"\\", "\"">>
            [] Head(s) = "\\"  -> <<"\\", "\\">>
            [] Head(s) = "\n"  -> <<"\\", "n">>
            [] OTHER           -> <<Head(s)>>)
         \o JsonEscape(Tail(s))

\* A decoder that leaves the escapes in the text.
JsonUnescapeRaw(s) == s

\* json.loads of the inside of a quoted text
RECURSIVE JsonUnescape(_)
JsonUnescape(s) ==
    IF s = <<>> THEN <<>>
    ELSE IF Head(s) = "\\" /\ Len(s) >= 2
    THEN (IF s[2] = "n" THEN <<"\n">> ELSE <<s[2]>>)
         \o JsonUnescape(SubSeq(s, 3, Len(s)))
    ELSE <<Head(s)>> \o JsonUnescape(Tail(s))

\* json.dumps(result, indent=2) of a stage result, as the entry points put
\* it in 'body': the mapping and the list keep their structure, each text
\* becomes its quoted JSON literal.
JsonDumps(record) ==
    [has_file_paths |-> record.has_file_paths,
     file_paths |-> [i \in 1..Len(record.file_paths) |->
                        <<"\"">> \o JsonEscape(record.file_paths[i])
                        \o <<"\"">>]]

\* json.loads of such a body
JsonLoads(doc) ==
    [has_file_paths |-> doc.has_file_paths,
     file_paths |-> [i \in 1..Len(doc.file_paths) |->
                        JsonUnescape(SubSeq(doc.file_paths[i], 2,
                                            Len(doc.file_paths[i]) - 1))]]

\* json.loads(x['body']) if isinstance(x.get('body'), str) else x ; FALSE in
\* `ok` stands for the exception the expression raises.
ParseBody(payload) ==
    CASE payload.shape = "raw"     -> [ok |-> TRUE,  data |-> payload.record]
      [] payload.shape = "wrapped" ->
             [ok |-> TRUE, data |-> JsonLoads(JsonDumps(payload.record))]
      [] payload.shape = "badjson" -> [ok |-> FALSE, data |-> payload.record]
      [] payload.shape = "notdict" -> [ok |-> FALSE, data |-> payload.record]

\* repo_data.get('file_paths', [])
AvailableFiles(repo_data) ==
    IF repo_data.has_file_paths THEN repo_data.file_paths ELSE <<>>

CleanResponse(response) == StripChars(Strip(response), {"\""})

\* The validation of lines 109-114 without the membership test.
ValidateFilenameNoMembership(filename, available_files) ==
    IF filename = NONE THEN None ELSE Some(filename)

\* if filename == "NONE" or filename not in available_files: return None
ValidateFilename(filename, available_files) ==
    IF filename = NONE \/ ~InList(filename, available_files)
    THEN None
    ELSE Some(filename)

\* Step 2 entered whatever step 1 returned.
TruthyAlways(opt) == TRUE

\* if problematic_file:
Truthy(opt) == opt.some /\ opt.val # <<>>

\* Every bounded input of one _generate_solution call.
SpInit ==
    /\ sp_pc = "identify"
    /\ sp_error_context \in {"raw", "wrapped", "badjson"}
    /\ \E shape \in PayloadShapes, has \in BOOLEAN,
          files \in SeqsUpTo(FileNames, MaxFiles) :
          /\ (~has => files = <<>>)
          /\ sp_repo_structure =
                [shape |-> shape,
                 record |-> [has_file_paths |-> has, file_paths |-> files]]
    /\ sp_response = <<>>
    /\ sp_bedrock_failed = FALSE
    /\ problematic_file = None
    /\ sp_identify_raised = FALSE
    /\ sp_calls = <<>>

\* except Exception as e: ... return None   (lines 116-118)
CatchAll(r) == IF r.raised THEN [raised |-> FALSE, value |-> None] ELSE r

\* The try body of _identify_problematic_file (lines 72-114) for the model
\* answer `text`; raised = TRUE when json.loads or .get raises.
IdentifyBody(error_context, repo_structure, text) ==
    LET repo == ParseBody(repo_structure)
    IN  IF error_context = "badjson" \/ ~repo.ok
        THEN [raised |-> TRUE, value |-> None]
        ELSE [raised |-> FALSE,
              value |-> ValidateFilename(CleanResponse(text),
                                         AvailableFiles(repo.data))]

\* Whether the body reaches the model call of line 105.
ReachesModel(error_context, repo_structure) ==
    error_context # "badjson" /\ ParseBody(repo_structure).ok

\* _identify_problematic_file, called as step 1 of _generate_solution.
IdentifyProblematicFile ==
    /\ sp_pc = "identify"
    /\ sp_pc' = "fetch"
    /\ UNCHANGED <<sp_error_context, sp_repo_structure>>
    /\ UNCHANGED <<lgVars, rpVars, orVars>>
    /\ \E failed \in BOOLEAN, text \in ModelResponses :
          /\ failed => text = BedrockSimpleError
          /\ ~ReachesModel(sp_error_context, sp_repo_structure)
                => (~failed /\ text = <<>>)
          /\ sp_bedrock_failed' = failed
          /\ sp_response' = text
          /\ sp_calls' = IF ReachesModel(sp_error_context, sp_repo_structure)
                         THEN Append(sp_calls, "bedrock_simple")
                         ELSE sp_calls
          /\ LET r == CatchAll(IdentifyBody(sp_error_context,
                                            sp_repo_structure, text))
             IN  /\ problematic_file' = r.value
                 /\ sp_identify_raised' = r.raised

\* Step 2 of _generate_solution: _fetch_file_content when a file was named.
FetchFileContent ==
    /\ sp_pc = "fetch"
    /\ sp_pc' = "synthesize"
    /\ IF Truthy(problematic_file)
       THEN \E creds \in BOOLEAN :
               sp_calls' = IF creds
                           THEN sp_calls \o <<"secrets", "github_contents">>
                           ELSE Append(sp_calls, "secrets")
       ELSE UNCHANGED sp_calls
    /\ UNCHANGED <<sp_error_context, sp_repo_structure, sp_response,
                   sp_bedrock_failed, problematic_file, sp_identify_raised>>
    /\ UNCHANGED <<lgVars, rpVars, orVars>>

\* Step 3 of _generate_solution: _generate_comprehensive_solution.
GenerateComprehensiveSolution ==
    /\ sp_pc = "synthesize"
    /\ sp_pc' = "done"
    /\ sp_calls' = Append(sp_calls, "bedrock")
    /\ UNCHANGED <<sp_error_context, sp_repo_structure, sp_response,
                   sp_bedrock_failed, problematic_file, sp_identify_raised>>
    /\ UNCHANGED <<lgVars, rpVars, orVars>>

SpNext == IdentifyProblematicFile \/ FetchFileContent \/ GenerateComprehensiveSolution

\* No _generate_solution call is in progress.
SpIdle ==
    /\ sp_pc = "idle"
    /\ sp_error_context = "raw"
    /\ sp_repo_structure =
          [shape |-> "raw",
           record |-> [has_file_paths |-> FALSE, file_paths |-> <<>>]]
    /\ sp_response = <<>>
    /\ sp_bedrock_failed = FALSE
    /\ problematic_file = None
    /\ sp_identify_raised = FALSE
    /\ sp_calls = <<>>

(***************************************************************************)
(* log_analysis_function.py                                                *)
(***************************************************************************)
\* Most events a log group holds in the exhaustive store family.
MaxEvents == 2

\* Reads recorded against a stream that never ends.  Later reads of the
\* loop are taken but no longer added to log_requests and lg_events; only
\* the store's token, kept in lg_cursor, changes with them.
MaxReads == 3

Minute == 60 * 1000

\* Start of the failed execution in the scenarios.
T0 == 60 * Minute

\* datetime.utcnow() of the run, as milliseconds.
NowMs == 600 * Minute

\* timedelta(hours=1), the default window's length
DefaultWindowMs == 60 * Minute

\* 30 * 60 * 1000, the native window's length
FailureWindowMs == 30 * 60 * 1000

\* native_logs[-50:]
NativeKeep == 50

\* len(events) > 100
NativeFetchCap == 100

\* The keyword the fetch classifies a log group by.
EventKeyword == <<"-", "e", "v", "e", "n", "t", "-", "l", "o", "g", "-", "g", "r", "o", "u", "p">> (* -event-log-group *)

CodeBuild == <<"C", "o", "d", "e", "B", "u", "i", "l", "d">> (* CodeBuild *)

CodeBuildEventQualifier == <<"c", "o", "d", "e", "b", "u", "i", "l", "d", "-", "e", "v", "e", "n", "t", "-", "l", "o", "g", "-", "g", "r", "o", "u", "p">> (* codebuild-event-log-group *)

CodeBuildNativeQualifier == <<"c", "o", "d", "e", "b", "u", "i", "l", "d", "-", "n", "a", "t", "i", "v", "e", "-", "l", "o", "g", "-", "g", "r", "o", "u", "p">> (* codebuild-native-log-group *)

LogGroupSuffix == <<"-", "l", "o", "g", "-", "g", "r", "o", "u", "p">> (* -log-group *)

\* Log groups of the scenarios: two whose name holds the keyword, two without.
GE == <<"/", "c", "p", "/", "b", "-", "e", "v", "e", "n", "t", "-", "l", "o", "g", "-", "g", "r", "o", "u", "p">> (* /cp/b-event-log-group *)

GE2 == <<"-", "e", "v", "e", "n", "t", "-", "l", "o", "g", "-", "g", "r", "o", "u", "p", "/", "s">> (* -event-log-group/s *)

GN == <<"/", "a", "w", "s", "/", "c", "o", "d", "e", "b", "u", "i", "l", "d", "/", "p">> (* /aws/codebuild/p *)

GN2 == <<"/", "c", "p", "/", "e", "v", "e", "n", "t", "-", "l", "o", "g">> (* /cp/event-log *)

GroupNames == {GE, GE2, GN, GN2}

\* The log group the deployment creates for the events of a build action:
\* /codepipeline/{pipeline}/{stage}/{action}/{provider}/{project}.
DeployedEventGroup == <<"/", "c", "o", "d", "e", "p", "i", "p", "e", "l", "i", "n", "e", "/", "p", "/", "B", "u", "i", "l", "d", "/", "a", "/", "C", "o", "d", "e", "B", "u", "i", "l", "d", "/", "b">> (* /codepipeline/p/Build/a/CodeBuild/b *)

\* ---- _get_pipeline_execution_timeframe (lines 55-95)
\* [a, b] as optional instants; (None, None) is the empty window.
EmptyWindow == <<NoTime, NoTime>>

RECURSIVE MatchingExecutions(_, _)
MatchingExecutions(executions, execution_id) ==
    IF executions = <<>> THEN <<>>
    ELSE (IF Head(executions).id = execution_id
          THEN <<Head(executions)>> ELSE <<>>)
         \o MatchingExecutions(Tail(executions), execution_id)

\* The summary fields read at lines 79-80.
HasTimes(execution) ==
    {"startTime", "lastUpdateTime"} \subseteq DOMAIN execution

\* An instant read with dict.get: absent when the summary lacks the field.
TimeOf(execution, field) ==
    IF field \in DOMAIN execution THEN SomeTime(execution[field]) ELSE NoTime

\* The function reading the summary with dict.get and without the except
\* clause of lines 93-95.
ExecutionTimeframeLenient(event, reg) ==
    LET executions ==
            MatchingExecutions(reg.executions, event.execution_id.val)
    IN  IF ~Truthy(event.pipeline) \/ ~Truthy(event.execution_id)
           \/ reg.raises \/ executions = <<>>
        THEN EmptyWindow
        ELSE <<TimeOf(executions[1], "startTime"),
               TimeOf(executions[1], "lastUpdateTime")>>

\* A raise inside the try block (the registry call, a summary without
\* startTime or lastUpdateTime) is caught at lines 93-95.
ExecutionTimeframe(event, reg) ==
    IF ~Truthy(event.pipeline) \/ ~Truthy(event.execution_id)
    THEN EmptyWindow
    ELSE IF reg.raises
    THEN EmptyWindow
    ELSE LET executions ==
                 MatchingExecutions(reg.executions, event.execution_id.val)
         IN  IF executions = <<>>
             THEN EmptyWindow
             ELSE IF ~HasTimes(executions[1])
             THEN EmptyWindow
             ELSE <<SomeTime(executions[1].startTime),
                    SomeTime(executions[1].lastUpdateTime)>>

\* ---- _get_log_groups_from_ssm (lines 100-147)
ParamPath(pipeline_name, stage_name, action_name, qualifier) ==
    [pipeline |-> pipeline_name, stage |-> stage_name,
     action |-> action_name, qualifier |-> qualifier]

\* ssm_client.get_parameter(Name=path): the entry, or its absence
SsmGet(path) ==
    IF path \in DOMAIN ssm THEN ssm[path]
    ELSE [status |-> "notfound", value |-> <<>>]

\* The check of lines 110-111 left out.
MissingFieldUnchecked(event) == FALSE

\* if not stage_name or not action_name or not provider
MissingField(event) ==
    ~Truthy(event.stage) \/ ~Truthy(event.action) \/ ~Truthy(event.provider)

\* Lines 124 and 137 without the strip(): a blank value counts as a group.
KeepLogGroupUnstripped(value) == [keep |-> value # <<>>, log_group |-> value]

\* log_group = value.strip(); if log_group: log_groups.append(log_group)
KeepLogGroup(value) ==
    [keep |-> Strip(value) # <<>>, log_group |-> Strip(value)]

\* The loop of lines 120-128 (and the single lookup of lines 134-141) over
\* `paths`, continuing from the partial outcome r.
RECURSIVE ResolveParams(_, _)
ResolveParams(paths, r) ==
    IF paths = <<>> THEN r
    ELSE LET entry == SsmGet(Head(paths))
             calls == Append(r.calls, Head(paths))
             kept  == KeepLogGroup(entry.value)
         IN  CASE entry.status = "notfound" ->
                    [r EXCEPT !.raised = TRUE, !.error = "ssm_not_found",
                              !.calls = calls]
               [] entry.status = "error" ->
                    [r EXCEPT !.raised = TRUE, !.error = "client_error",
                              !.calls = calls]
               [] OTHER ->
                    ResolveParams(Tail(paths),
                        [r EXCEPT !.calls = calls,
                                  !.log_groups =
                                      IF kept.keep
                                      THEN Append(@, kept.log_group)
                                      ELSE @])

\* The lookup keys built for the event's provider (lines 116-118, 132).
LookupPaths(pipeline_name, event) ==
    LET stage_name  == event.stage.val
        action_name == event.action.val
        provider    == event.provider.val
    IN  IF provider = CodeBuild
        THEN <<ParamPath(pipeline_name, stage_name, action_name,
                         CodeBuildEventQualifier),
               ParamPath(pipeline_name, stage_name, action_name,
                         CodeBuildNativeQualifier)>>
        ELSE <<ParamPath(pipeline_name, stage_name, action_name,
                         Lower(provider) \o LogGroupSuffix)>>

\* Lines 143-144 left out: an empty list is returned.
NoLogGroupsUnchecked(r) == FALSE

\* if not log_groups (line 143), reached when no lookup raised
NoLogGroups(r) == ~r.raised /\ r.log_groups = <<>>

\* The whole function: [raised, error, log_groups, calls].
GetLogGroupsFromSsm(pipeline_name, event) ==
    LET r0 == [raised |-> FALSE, error |-> "", log_groups |-> <<>>,
               calls |-> <<>>]
    IN  IF MissingField(event)
        THEN [r0 EXCEPT !.raised = TRUE, !.error = "missing_field"]
        ELSE LET r == ResolveParams(LookupPaths(pipeline_name, event), r0)
             IN  IF NoLogGroups(r)
                 THEN [r EXCEPT !.raised = TRUE, !.error = "no_log_groups"]
                 ELSE r

\* ---- _fetch_logs_in_timeframe (lines 152-216)
\* is_event_log = any(keyword in log_group for keyword in ['-event-log-group'])
IsEventLog(log_group) == IsSubstring(EventKeyword, log_group)

KindOf(log_group) == IF IsEventLog(log_group) THEN "event" ELSE "native"

\* The native fetch asking for the whole execution window.
FailureWindowStartFullWindow(s_ms, e_ms) == s_ms

\* failure_window_start = end_ms - (30 * 60 * 1000)
FailureWindowStart(s_ms, e_ms) == e_ms - FailureWindowMs

\* startTime of the read requests for a group of the given kind
RequestStart(kind, s_ms, e_ms) ==
    IF kind = "event" THEN s_ms ELSE FailureWindowStart(s_ms, e_ms)

\* The log store's answer to a read of [startTime, endTime]: the stored
\* events of the stream inside the range, in stored order.
EventsInRange(events, startTime, endTime) ==
    LET InRange(e) == startTime <= e.timestamp /\ e.timestamp <= endTime
    IN  SelectSeq(events, InRange)

\* The dictionaries appended at lines 241-246 and 277-282.
TagEvents(page, log_group, kind) ==
    [i \in 1..Len(page) |->
        [log_group |-> log_group, timestamp |-> page[i].timestamp,
         message |-> page[i].message, type |-> kind]]

\* The native loop stopping at the number of entries kept, not at the cap.
StopPagingAtKeep(kind, has_token, page_len, n_events) ==
    \/ ~has_token
    \/ page_len = 0
    \/ (kind = "native" /\ n_events > NativeKeep)

\* The native loop without its cap (line 285 reduced to line 249).
StopPagingUncapped(kind, has_token, page_len, n_events) ==
    ~has_token \/ page_len = 0

\* Lines 249 and 285: whether the pagination loop breaks after a page.
StopPaging(kind, has_token, page_len, n_events) ==
    \/ ~has_token
    \/ page_len = 0
    \/ (kind = "native" /\ n_events > NativeFetchCap)

\* list.sort(key=lambda x: x['timestamp']): ascending and stable.  The
\* sorted list is computed by bisecting the key range [lo, hi]; selecting
\* keeps the relative order of the entries, so equal keys stay in list order.
RECURSIVE SortRange(_, _, _)
SortRange(seq, lo, hi) ==
    IF Len(seq) <= 1 \/ lo >= hi THEN seq
    ELSE LET mid == (lo + hi) \div 2
             Low(x) == x.timestamp <= mid
             High(x) == x.timestamp > mid
         IN  SortRange(SelectSeq(seq, Low), lo, mid)
             \o SortRange(SelectSeq(seq, High), mid + 1, hi)

SortByTimestamp(seq) == SortRange(seq, 0, NowMs)

\* [log for log in logs if log.get('type') == kind]
OfType(logs, kind) ==
    LET IsKind(log) == log.type = kind
    IN  SelectSeq(logs, IsKind)

\* The first 50 kept in place of the last 50.
FirstNative(native_logs) ==
    SubSeq(native_logs, 1,
           IF Len(native_logs) < NativeKeep THEN Len(native_logs)
           ELSE NativeKeep)

\* native_logs[-50:]
LastNative(native_logs) ==
    SubSeq(native_logs,
           IF Len(native_logs) > NativeKeep
           THEN Len(native_logs) - NativeKeep + 1 ELSE 1,
           Len(native_logs))

\* The bundle without the truncation of line 208.
AssembleBundleUntruncated(logs) ==
    LET sorted == SortByTimestamp(logs)
    IN  [logs |-> sorted,
         total_events |-> Len(OfType(sorted, "event")),
         total_native |-> Len(OfType(sorted, "native"))]

\* Lines 200-216: sort, keep all event logs and the last 50 native logs,
\* sort again.
AssembleBundle(logs) ==
    LET sorted      == SortByTimestamp(logs)
        event_logs  == OfType(sorted, "event")
        native_logs == OfType(sorted, "native")
    IN  [logs |-> SortByTimestamp(event_logs \o LastNative(native_logs)),
         total_events |-> Len(event_logs),
         total_native |-> Len(native_logs)]

NoBundle == [logs |-> <<>>, total_events |-> 0, total_native |-> 0]

NoResult == [status |-> "none"]

\* Page lengths the log store may answer with: nothing, all that remain,
\* a fixed page length, or any part of a short remainder.
PageSizes(remaining) ==
    {0, remaining}
    \cup {k \in {20, 50, 101} : k <= remaining}
    \cup (IF remaining <= 4 THEN 1..remaining ELSE {})

\* A failure of one log group ending the whole fetch.
AbortOnFailure(i, n) == n + 1

\* except Exception ... continue (lines 196-198): the index of the log group
\* handled after group i of n failed.
SkipGroup(i, n) == i + 1

\* The pages read before a failure added to the collected logs.
LogsAfterFailurePartial(logs, partial) == logs \o partial

\* A raise inside a pagination loop leaves the loop's local list behind:
\* all_logs.extend (lines 186, 193) is not reached.
LogsAfterFailure(logs, partial) == logs

\* Reads recorded so far for the pagination loop in progress.
ReadsInGroup ==
    Cardinality({i \in 1..Len(log_requests) :
                   \A j \in i..Len(log_requests) :
                      log_requests[j].op = "get_log_events"})

\* Step 1 of analyze_logs (line 26).
GetPipelineExecutionTimeframe ==
    /\ lg_pc = "timeframe"
    /\ lg_pc' = "resolve"
    /\ LET w == ExecutionTimeframe(pipeline_event, registry)
       IN  /\ start_time' = w[1]
           /\ end_time' = w[2]
    /\ UNCHANGED <<pipeline_event, lg_pipeline_name, registry, ssm, store,
                   ssm_calls, log_groups_list, start_ms, end_ms, gi, lg_kind,
                   lg_events, lg_cursor, all_logs, log_requests, upstream_ok,
                   log_bundle, lg_result>>
    /\ UNCHANGED <<spVars, rpVars, orVars>>

\* Step 2 of analyze_logs (lines 29-32); a failure of the resolution is
\* caught at line 48 and ends the call with {"error": ...}.
ResolveLogGroups ==
    /\ lg_pc = "resolve"
    /\ LET r == GetLogGroupsFromSsm(lg_pipeline_name, pipeline_event)
       IN  /\ ssm_calls' = r.calls
           /\ IF r.raised
              THEN /\ lg_pc' = "done"
                   /\ lg_result' = [error |-> r.error]
                   /\ UNCHANGED log_groups_list
              ELSE /\ lg_pc' = "fetch"
                   /\ log_groups_list' = r.log_groups
                   /\ UNCHANGED lg_result
    /\ UNCHANGED <<pipeline_event, lg_pipeline_name, registry, ssm, store,
                   start_time, end_time, start_ms, end_ms, gi, lg_kind,
                   lg_events, lg_cursor, all_logs, log_requests, upstream_ok,
                   log_bundle>>
    /\ UNCHANGED <<spVars, rpVars, orVars>>

\* The default window substituted only when both instants are absent.
BothAbsent(s, e) == ~s.some /\ ~e.some

\* if not start_time or not end_time (line 155)
WindowEmpty(s, e) == ~s.some \/ ~e.some

\* Lines 155-164 of _fetch_logs_in_timeframe: the window in milliseconds,
\* [now - 1h, now] when the execution window is empty.
FetchStart ==
    /\ lg_pc = "fetch"
    /\ lg_pc' = "group"
    /\ IF WindowEmpty(start_time, end_time)
       THEN /\ end_ms' = NowMs
            /\ start_ms' = NowMs - DefaultWindowMs
       ELSE /\ end_ms' = end_time.val
            /\ start_ms' = start_time.val
    /\ all_logs' = <<>>
    /\ gi' = 1
    /\ UNCHANGED <<pipeline_event, lg_pipeline_name, registry, ssm, store,
                   start_time, end_time, ssm_calls, log_groups_list, lg_kind,
                   lg_events, lg_cursor, log_requests, upstream_ok,
                   log_bundle, lg_result>>
    /\ UNCHANGED <<spVars, rpVars, orVars>>

\* Lines 165-181 for the next log group: the stream lookup.  A raise is
\* caught at line 196 and the group is skipped, as is a group without streams.
DescribeLogStreams ==
    /\ lg_pc = "group"
    /\ gi <= Len(log_groups_list)
    /\ LET log_group == log_groups_list[gi]
           streams == IF log_group \in DOMAIN store
                      THEN store[log_group].streams ELSE "raise"
       IN  /\ log_requests' = Append(log_requests,
                 [op |-> "describe_log_streams", log_group |-> log_group])
           /\ lg_kind' = KindOf(log_group)
           /\ lg_events' = <<>>
           /\ lg_cursor' = 0
           /\ IF streams \in {"one", "endless"}
              THEN /\ lg_pc' = "page"
                   /\ UNCHANGED <<gi, upstream_ok>>
              ELSE /\ lg_pc' = "group"
                   /\ gi' = (IF streams = "raise"
                             THEN SkipGroup(gi, Len(log_groups_list))
                             ELSE gi + 1)
                   /\ upstream_ok' = (upstream_ok /\ streams # "raise")
    /\ UNCHANGED <<pipeline_event, lg_pipeline_name, registry, ssm, store,
                   start_time, end_time, ssm_calls, log_groups_list, start_ms,
                   end_ms, all_logs, log_bundle, lg_result>>
    /\ UNCHANGED <<spVars, rpVars, orVars>>

\* One iteration of the pagination loop of _get_all_events_from_stream
\* (lines 226-250) or _get_events_around_failure (lines 262-286), and, when
\* the loop breaks, the extend of line 186 or 193.  A raise discards the
\* events of this group (line 196).  Each call is recorded with its answer.
\* An "endless" stream answers every read with all its events of the range
\* and a next-page token; its first MaxReads reads are recorded.
GetLogEvents ==
    /\ lg_pc = "page"
    /\ LET log_group == log_groups_list[gi]
           endless   == store[log_group].streams = "endless"
           recorded  == ~endless \/ ReadsInGroup < MaxReads
           startTime == RequestStart(lg_kind, start_ms, end_ms)
           matching  == EventsInRange(store[log_group].events,
                                      startTime, end_ms)
           offset    == IF endless THEN 0 ELSE lg_cursor
           remaining == Len(matching) - offset
           call(raises, k, has_token) ==
               [op |-> "get_log_events", log_group |-> log_group,
                startTime |-> startTime, endTime |-> end_ms,
                kind |-> lg_kind, raised |-> raises, returned |-> k,
                has_token |-> has_token]
       IN  \E raises \in BOOLEAN,
              k \in (IF endless THEN {Len(matching)}
                     ELSE PageSizes(remaining)),
              has_token \in BOOLEAN :
              IF raises
              THEN /\ k = 0
                   /\ ~has_token
                   /\ log_requests' =
                         Append(log_requests, call(TRUE, 0, FALSE))
                   /\ lg_pc' = "group"
                   /\ gi' = SkipGroup(gi, Len(log_groups_list))
                   /\ lg_events' = <<>>
                   /\ lg_cursor' = 0
                   /\ upstream_ok' = FALSE
                   /\ all_logs' = LogsAfterFailure(all_logs, lg_events)
              ELSE LET page == TagEvents(
                                  SubSeq(matching, offset + 1, offset + k),
                                  log_group, lg_kind)
                       events == IF recorded THEN lg_events \o page
                                 ELSE lg_events
                   IN  /\ endless => has_token
                       /\ log_requests' =
                             (IF recorded
                              THEN Append(log_requests,
                                          call(FALSE, k, has_token))
                              ELSE log_requests)
                       /\ upstream_ok' =
                             (/\ upstream_ok
                              /\ ~endless
                              /\ (remaining > 0 => k > 0)
                              /\ (remaining - k > 0 => has_token))
                       /\ IF StopPaging(lg_kind, has_token, k, Len(events))
                          THEN /\ all_logs' = all_logs \o events
                               /\ lg_pc' = "group"
                               /\ gi' = gi + 1
                               /\ lg_events' = <<>>
                               /\ lg_cursor' = 0
                          ELSE /\ lg_events' = events
                               /\ lg_cursor' =
                                     (IF ~endless THEN lg_cursor + k
                                      ELSE IF recorded THEN 0
                                      ELSE 1 - lg_cursor)
                               /\ UNCHANGED <<lg_pc, gi, all_logs>>
    /\ UNCHANGED <<pipeline_event, lg_pipeline_name, registry, ssm, store,
                   start_time, end_time, ssm_calls, log_groups_list, start_ms,
                   end_ms, lg_kind, log_bundle, lg_result>>
    /\ UNCHANGED <<spVars, rpVars, orVars>>

\* Lines 200-216, after the last log group.
AssembleLogs ==
    /\ lg_pc = "group"
    /\ gi > Len(log_groups_list)
    /\ lg_pc' = "fetched"
    /\ log_bundle' = AssembleBundle(all_logs)
    /\ UNCHANGED <<pipeline_event, lg_pipeline_name, registry, ssm, store,
                   start_time, end_time, ssm_calls, log_groups_list, start_ms,
                   end_ms, gi, lg_kind, lg_events, lg_cursor, all_logs,
                   log_requests, upstream_ok, lg_result>>
    /\ UNCHANGED <<spVars, rpVars, orVars>>

\* Lines 37-47 of analyze_logs.
AnalyzeLogsReturn ==
    /\ lg_pc = "fetched"
    /\ lg_pc' = "done"
    /\ lg_result' = [status |-> "success", log_streams |-> log_bundle,
                     log_groups_list |-> log_groups_list]
    /\ UNCHANGED <<pipeline_event, lg_pipeline_name, registry, ssm, store,
                   start_time, end_time, ssm_calls, log_groups_list, start_ms,
                   end_ms, gi, lg_kind, lg_events, lg_cursor, all_logs,
                   log_requests, upstream_ok, log_bundle>>
    /\ UNCHANGED <<spVars, rpVars, orVars>>

FetchNext == FetchStart \/ DescribeLogStreams \/ GetLogEvents \/ AssembleLogs

AnalyzeNext ==
    \/ GetPipelineExecutionTimeframe
    \/ ResolveLogGroups
    \/ FetchStart
    \/ DescribeLogStreams
    \/ GetLogEvents
    \/ AssembleLogs
    \/ AnalyzeLogsReturn

\* ---- inputs of the log analysis
Range(seq) == {seq[i] : i \in 1..Len(seq)}

\* A log group the store does not know: the stream lookup raises.
AbsentGroup == [streams |-> "raise", events |-> <<>>]

\* Stored events with the given timestamps; the message is the position.
StoredEvents(timestamps) ==
    [i \in 1..Len(timestamps) |-> [timestamp |-> timestamps[i], message |-> i]]

Stream(timestamps) == [streams |-> "one", events |-> StoredEvents(timestamps)]

\* Execution windows: 5, 30 and 60 minutes, an instant, and the empty ones
\* (both instants absent, or one of them).
Windows ==
    {<<SomeTime(T0), SomeTime(T0 + 5 * Minute)>>,
     <<SomeTime(T0), SomeTime(T0 + 30 * Minute)>>,
     <<SomeTime(T0), SomeTime(T0 + 60 * Minute)>>,
     <<SomeTime(T0), SomeTime(T0)>>,
     <<SomeTime(T0), NoTime>>,
     <<NoTime, SomeTime(T0 + 5 * Minute)>>,
     EmptyWindow}

FiveMinuteWindow == <<SomeTime(T0), SomeTime(T0 + 5 * Minute)>>

\* Log-group lists handed to _fetch_logs_in_timeframe.
GroupLists ==
    {<<GE>>, <<GN>>, <<GE, GN>>, <<GN, GE>>, <<GN, GN2>>, <<GE, GE2>>,
     <<GN, GN>>}

\* Every content of one log group with at most MaxEvents events.
SmallGroups ==
    {Stream(ts) : ts \in SeqsUpTo({T0 + Minute, T0 + 2 * Minute}, MaxEvents)}
    \cup {[streams |-> "none", events |-> <<>>], AbsentGroup}

\* One log group's content for the window scenarios: events before, inside
\* and after each window.
WindowGroup ==
    Stream(<<T0 - 10 * Minute, T0 + Minute, T0 + 20 * Minute,
             T0 + 40 * Minute, NowMs - 10 * Minute>>)

\* Native groups larger than the 50 kept: timestamps ascending, descending
\* or all equal, every one inside [T0, T0 + 5min).
BigTimestamps(n, pattern) ==
    [i \in 1..n |->
        CASE pattern = "asc"  -> T0 + (i - 1) * 2500
          [] pattern = "desc" -> T0 + (n - i) * 2500
          [] pattern = "flat" -> T0 + 2 * Minute]

BigSizes == {51, 120}

FetchFrame ==
    /\ pipeline_event = [pipeline |-> None, execution_id |-> None,
                         stage |-> None, action |-> None, provider |-> None]
    /\ lg_pipeline_name = <<>>
    /\ registry = [raises |-> FALSE, executions |-> <<>>]
    /\ ssm = <<>>
    /\ ssm_calls = <<>>
    /\ start_ms = 0
    /\ end_ms = 0
    /\ gi = 0
    /\ lg_kind = "event"
    /\ lg_events = <<>>
    /\ lg_cursor = 0
    /\ all_logs = <<>>
    /\ log_requests = <<>>
    /\ upstream_ok = TRUE
    /\ log_bundle = NoBundle
    /\ lg_result = NoResult

\* Every small store, for every list of log groups, in a 5-minute window.
FetchInitStores ==
    /\ start_time = FiveMinuteWindow[1]
    /\ end_time = FiveMinuteWindow[2]
    /\ log_groups_list \in GroupLists
    /\ \E f \in [Range(log_groups_list) -> SmallGroups] :
          store = [g \in GroupNames |->
                      IF g \in Range(log_groups_list) THEN f[g]
                      ELSE AbsentGroup]

\* Every window, over groups that hold events around each of them.
FetchInitWindows ==
    /\ \E w \in Windows : start_time = w[1] /\ end_time = w[2]
    /\ log_groups_list \in {<<GE>>, <<GN>>, <<GE, GN>>}
    /\ store = [g \in GroupNames |-> WindowGroup]

\* One event entry at T0 + 1min and large native groups.
FetchInitBig ==
    /\ start_time = FiveMinuteWindow[1]
    /\ end_time = FiveMinuteWindow[2]
    /\ log_groups_list \in {<<GE, GN>>, <<GN, GE>>, <<GN, GN2>>}
    /\ \E n \in BigSizes, pattern \in {"asc", "desc", "flat"} :
          store = [g \in GroupNames |->
                      CASE g = GE  -> Stream(<<T0 + Minute>>)
                        [] g = GN  -> Stream(BigTimestamps(n, pattern))
                        [] g = GN2 -> Stream(BigTimestamps(30, "asc"))
                        [] OTHER   -> AbsentGroup]

\* A log store that answers every read with a non-empty page and a next-page
\* token: each group is one such stream of 51 events inside the window.
EndlessStream(timestamps) ==
    [streams |-> "endless", events |-> StoredEvents(timestamps)]

FetchInitEndless ==
    /\ start_time = FiveMinuteWindow[1]
    /\ end_time = FiveMinuteWindow[2]
    /\ log_groups_list \in {<<GE>>, <<GN>>, <<GN, GE>>}
    /\ store = [g \in GroupNames |->
                   EndlessStream(BigTimestamps(51, "asc"))]

\* Inputs of one _fetch_logs_in_timeframe call.
FetchInit ==
    /\ lg_pc = "fetch"
    /\ FetchFrame
    /\ (FetchInitStores \/ FetchInitWindows \/ FetchInitBig)

\* The same call against the window scenarios and against endless stores.
PagingInit ==
    /\ lg_pc = "fetch"
    /\ FetchFrame
    /\ (FetchInitWindows \/ FetchInitEndless)

\* ---- inputs of analyze_logs
PipelineName == <<"p">>

StageName == <<"B", "u", "i", "l", "d">> (* Build *)

ActionName == <<"a">>

S3 == <<"S", "3">> (* S3 *)

LowerCodeBuild == <<"c", "o", "d", "e", "b", "u", "i", "l", "d">> (* codebuild *)

FieldValues(present) == {None, Some(<<>>), Some(present)}

Found(value) == [status |-> "found", value |-> value]

QualifierPath(qualifier) ==
    ParamPath(PipelineName, StageName, ActionName, qualifier)

\* The parameters a deployment of a CodeBuild and an S3 stage would hold,
\* under the keys the resolver asks for.
Qualifiers ==
    {CodeBuildEventQualifier, CodeBuildNativeQualifier,
     Lower(S3) \o LogGroupSuffix, LowerCodeBuild \o LogGroupSuffix}

GoodSsm ==
    [p \in {QualifierPath(q) : q \in Qualifiers} |->
        IF p.qualifier = CodeBuildNativeQualifier THEN Found(GN)
        ELSE Found(GE)]

\* What one parameter may be: absent, unreadable, or holding a value.
SsmEntries ==
    {[status |-> "notfound", value |-> <<>>],
     [status |-> "error", value |-> <<>>]}
    \cup {Found(v) : v \in {<<>>, <<" ">>, GE, GN, <<" ">> \o GN \o <<"\n">>,
                            DeployedEventGroup}}

AnalyzeStore ==
    [g \in GroupNames \cup {DeployedEventGroup} |->
        Stream(<<T0 + Minute, T0 + 2 * Minute>>)]

AnalyzeFrame ==
    /\ lg_pc = "timeframe"
    /\ lg_pipeline_name =
          (IF pipeline_event.pipeline.some THEN pipeline_event.pipeline.val
           ELSE <<>>)
    /\ store = AnalyzeStore
    /\ start_time = NoTime
    /\ end_time = NoTime
    /\ log_groups_list = <<>>
    /\ ssm_calls = <<>>
    /\ start_ms = 0
    /\ end_ms = 0
    /\ gi = 0
    /\ lg_kind = "event"
    /\ lg_events = <<>>
    /\ lg_cursor = 0
    /\ all_logs = <<>>
    /\ log_requests = <<>>
    /\ upstream_ok = TRUE
    /\ log_bundle = NoBundle
    /\ lg_result = NoResult

Executions ==
    {<<>>,
     <<[id |-> <<"x">>, startTime |-> T0, lastUpdateTime |-> T0 + 5 * Minute]>>,
     <<[id |-> <<"y">>, startTime |-> T0, lastUpdateTime |-> T0 + 60 * Minute],
       [id |-> <<"x">>, startTime |-> T0, lastUpdateTime |-> T0 + 5 * Minute]>>,
     <<[id |-> <<"y">>, startTime |-> T0, lastUpdateTime |-> T0 + 60 * Minute]>>,
     <<[id |-> <<"x">>, startTime |-> T0]>>,
     <<[id |-> <<"x">>, lastUpdateTime |-> T0 + 5 * Minute]>>}

\* Every combination of present, empty and absent event fields, against a
\* complete configuration store.
AnalyzeInitFields ==
    /\ \E pipeline \in {None, Some(PipelineName)},
          execution_id \in {None, Some(<<"x">>)},
          stage \in FieldValues(StageName),
          action \in FieldValues(ActionName),
          provider \in {None, Some(<<>>), Some(CodeBuild), Some(S3)} :
          pipeline_event = [pipeline |-> pipeline,
                            execution_id |-> execution_id,
                            stage |-> stage, action |-> action,
                            provider |-> provider]
    /\ \E raises \in BOOLEAN, executions \in Executions :
          /\ raises => executions = <<>>
          /\ registry = [raises |-> raises, executions |-> executions]
    /\ ssm = GoodSsm

\* A complete event, against every content of the parameters it needs.
AnalyzeInitSsm ==
    /\ \E provider \in {CodeBuild, S3, LowerCodeBuild} :
          pipeline_event = [pipeline |-> Some(PipelineName),
                            execution_id |-> Some(<<"x">>),
                            stage |-> Some(StageName),
                            action |-> Some(ActionName),
                            provider |-> Some(provider)]
    /\ registry = [raises |-> FALSE, executions |-> <<>>]
    /\ \E f \in [{QualifierPath(q) : q \in Qualifiers} -> SsmEntries] :
          /\ \A p \in DOMAIN f :
                p \notin Range(LookupPaths(PipelineName, pipeline_event))
                    => f[p] = GoodSsm[p]
          /\ ssm = f

\* ---- pipeline_logger_stack.py : PipelineLoggerStack.__init__
ECR == <<"E", "C", "R">> (* ECR *)

CloudFormation == <<"C", "l", "o", "u", "d", "F", "o", "r", "m", "a", "t", "i", "o", "n">> (* CloudFormation *)

CodeStarSourceConnection == <<"C", "o", "d", "e", "S", "t", "a", "r", "S", "o", "u", "r", "c", "e", "C", "o", "n", "n", "e", "c", "t", "i", "o", "n">> (* CodeStarSourceConnection *)

\* The providers the stack writes a log-group parameter for.
DeployedProviders == {S3, ECR, CodeBuild, CloudFormation, CodeStarSourceConnection}

\* The last segment of the parameter names written for a provider
\* (lines 55, 74, 94, 123, 139, 147).
WrittenQualifiers(provider) ==
    CASE provider = S3 -> {<<"s", "3", "-", "e", "v", "e", "n", "t", "-", "l", "o", "g", "-", "g", "r", "o", "u", "p">> (* s3-event-log-group *)}
      [] provider = ECR -> {<<"e", "c", "r", "-", "e", "v", "e", "n", "t", "-", "l", "o", "g", "-", "g", "r", "o", "u", "p">> (* ecr-event-log-group *)}
      [] provider = CodeBuild ->
             {CodeBuildEventQualifier, CodeBuildNativeQualifier}
      [] provider = CloudFormation -> {<<"c", "f", "n", "-", "e", "v", "e", "n", "t", "-", "l", "o", "g", "-", "g", "r", "o", "u", "p">> (* cfn-event-log-group *)}
      [] provider = CodeStarSourceConnection -> {<<"s", "o", "u", "r", "c", "e", "-", "e", "v", "e", "n", "t", "-", "l", "o", "g", "-", "g", "r", "o", "u", "p">> (* source-event-log-group *)}
      [] OTHER -> {}

\* log_group_name (lines 35-37) followed by the resource name of the stage's
\* configuration; the source provider has no resource segment.
WrittenLogGroup(pipeline_name, stage_name, action_name, provider) ==
    <<"/", "c", "o", "d", "e", "p", "i", "p", "e", "l", "i", "n", "e", "/">> (* /codepipeline/ *) \o pipeline_name \o <<"/">> \o stage_name \o <<"/">>
    \o action_name \o <<"/">> \o provider
    \o (IF provider = CodeStarSourceConnection THEN <<>> ELSE <<"/", "b">> (* /b *))

\* The configuration store after the stack was deployed for one stage.
PipelineLoggerParams(pipeline_name, stage_name, action_name, provider) ==
    [p \in {ParamPath(pipeline_name, stage_name, action_name, q) :
               q \in WrittenQualifiers(provider)} |->
        IF p.qualifier = CodeBuildNativeQualifier THEN Found(GN)
        ELSE Found(WrittenLogGroup(pipeline_name, stage_name, action_name,
                                   provider))]

\* A complete failure event of a deployed stage, for each provider.
AnalyzeInitDeployed ==
    /\ \E provider \in DeployedProviders :
          /\ pipeline_event = [pipeline |-> Some(PipelineName),
                               execution_id |-> Some(<<"x">>),
                               stage |-> Some(StageName),
                               action |-> Some(ActionName),
                               provider |-> Some(provider)]
          /\ ssm = PipelineLoggerParams(PipelineName, StageName, ActionName,
                                        provider)
    /\ \E executions \in Executions :
          registry = [raises |-> FALSE, executions |-> executions]

AnalyzeInit ==
    /\ (AnalyzeInitFields \/ AnalyzeInitSsm \/ AnalyzeInitDeployed)
    /\ AnalyzeFrame

\* No analyze_logs call is in progress.
LgIdle ==
    /\ FetchFrame
    /\ lg_pc = "idle"
    /\ store = [g \in GroupNames |-> AbsentGroup]
    /\ start_time = NoTime
    /\ end_time = NoTime
    /\ log_groups_list = <<>>


(***************************************************************************)
(* repo_structure_function.py : RepoStructureFunction                      *)
(***************************************************************************)
\* Largest number of entries in a repository tree listing.
MaxTree == 3

config_extensions ==
    << <<".", "j", "s", "o", "n">> (* .json *), <<".", "y", "a", "m", "l">> (* .yaml *), <<".", "y", "m", "l">> (* .yml *), <<".", "x", "m", "l">> (* .xml *), <<".", "p", "r", "o", "p", "e", "r", "t", "i", "e", "s">> (* .properties *),
       <<".", "i", "n", "i">> (* .ini *), <<".", "c", "o", "n", "f">> (* .conf *) >>

config_names ==
    << <<"d", "o", "c", "k", "e", "r", "f", "i", "l", "e">> (* dockerfile *), <<"m", "a", "k", "e", "f", "i", "l", "e">> (* makefile *), <<"j", "e", "n", "k", "i", "n", "s", "f", "i", "l", "e">> (* jenkinsfile *), <<"b", "u", "i", "l", "d", "s", "p", "e", "c">> (* buildspec *) >>

source_extensions ==
    << <<".", "p", "y">> (* .py *), <<".", "j", "s">> (* .js *), <<".", "j", "a", "v", "a">> (* .java *), <<".", "c", "p", "p">> (* .cpp *), <<".", "c">> (* .c *), <<".", "g", "o">> (* .go *), <<".", "r", "s">> (* .rs *),
       <<".", "r", "b">> (* .rb *), <<".", "p", "h", "p">> (* .php *), <<".", "c", "s">> (* .cs *), <<".", "t", "s">> (* .ts *) >>

build_files ==
    << <<"b", "u", "i", "l", "d", ".", "g", "r", "a", "d", "l", "e">> (* build.gradle *), <<"p", "o", "m", ".", "x", "m", "l">> (* pom.xml *), <<"p", "a", "c", "k", "a", "g", "e", ".", "j", "s", "o", "n">> (* package.json *),
       <<"r", "e", "q", "u", "i", "r", "e", "m", "e", "n", "t", "s", ".", "t", "x", "t">> (* requirements.txt *), <<"s", "e", "t", "u", "p", ".", "p", "y">> (* setup.py *), <<"c", "a", "r", "g", "o", ".", "t", "o", "m", "l">> (* cargo.toml *) >>

deployment_patterns ==
    << <<"d", "e", "p", "l", "o", "y">> (* deploy *), <<"k", "8", "s">> (* k8s *), <<"k", "u", "b", "e", "r", "n", "e", "t", "e", "s">> (* kubernetes *), <<"h", "e", "l", "m">> (* helm *), <<"t", "e", "r", "r", "a", "f", "o", "r", "m">> (* terraform *),
       <<"c", "l", "o", "u", "d", "f", "o", "r", "m", "a", "t", "i", "o", "n">> (* cloudformation *), <<"d", "o", "c", "k", "e", "r">> (* docker *) >>

\* The manifest names of _analyze_dependencies.
config_files ==
    << <<"p", "a", "c", "k", "a", "g", "e", ".", "j", "s", "o", "n">> (* package.json *), <<"r", "e", "q", "u", "i", "r", "e", "m", "e", "n", "t", "s", ".", "t", "x", "t">> (* requirements.txt *), <<"p", "o", "m", ".", "x", "m", "l">> (* pom.xml *),
       <<"b", "u", "i", "l", "d", ".", "g", "r", "a", "d", "l", "e">> (* build.gradle *), <<"D", "o", "c", "k", "e", "r", "f", "i", "l", "e">> (* Dockerfile *) >>

\* _is_config_file
IsConfigFile(path) ==
    LET HasExt(ext) == EndsWith(Lower(path), ext)
        HasName(name) == IsSubstring(name, Lower(path))
    IN  \/ \E i \in 1..Len(config_extensions) : HasExt(config_extensions[i])
        \/ \E i \in 1..Len(config_names) : HasName(config_names[i])

\* _is_source_file
IsSourceFile(path) ==
    LET HasExt(ext) == EndsWith(Lower(path), ext)
    IN  \E i \in 1..Len(source_extensions) : HasExt(source_extensions[i])

\* _is_build_file
IsBuildFile(path) ==
    LET HasName(bf) == IsSubstring(bf, Lower(path))
    IN  \E i \in 1..Len(build_files) : HasName(build_files[i])

\* _is_deployment_file
IsDeploymentFile(path) ==
    LET HasPattern(pattern) == IsSubstring(pattern, Lower(path))
    IN  \E i \in 1..Len(deployment_patterns) : HasPattern(deployment_patterns[i])

\* The "analysis" entry of the result.
Classify(file_paths) ==
    [ config_files     |-> SelectSeq(file_paths, IsConfigFile),
      source_files     |-> SelectSeq(file_paths, IsSourceFile),
      build_files      |-> SelectSeq(file_paths, IsBuildFile),
      deployment_files |-> SelectSeq(file_paths, IsDeploymentFile) ]

\* str.split(sep) for a one-character separator
RECURSIVE Split(_, _)
Split(s, sep) ==
    IF \E i \in 1..Len(s) : s[i] = sep
    THEN LET k == CHOOSE i \in 1..Len(s) :
                      s[i] = sep /\ \A j \in 1..(i - 1) : s[j] # sep
         IN  <<SubSeq(s, 1, k - 1)>> \o Split(SubSeq(s, k + 1, Len(s)), sep)
    ELSE <<s>>

\* str.replace(old, ""), left to right, non-overlapping
RECURSIVE Remove(_, _)
Remove(s, old) ==
    IF Len(s) < Len(old) \/ old = <<>> THEN s
    ELSE IF SubSeq(s, 1, Len(old)) = old
         THEN Remove(SubSeq(s, Len(old) + 1, Len(s)), old)
         ELSE <<Head(s)>> \o Remove(Tail(s), old)

\* The parse accepting a path of one segment as owner and repository.
ParseGithubUrlOneSegment(url_path) ==
    LET path_parts == Split(StripChars(url_path, {"/"}), "/")
    IN  [owner |-> Some(path_parts[1]),
         repo  |-> Some(Remove(path_parts[Len(path_parts)], <<".", "g", "i", "t">> (* .git *)))]

\* _parse_github_url, applied to the path component of the URL
ParseGithubUrl(url_path) ==
    LET path_parts == Split(StripChars(url_path, {"/"}), "/")
    IN  IF Len(path_parts) >= 2
        THEN [owner |-> Some(path_parts[1]),
              repo  |-> Some(Remove(path_parts[2], <<".", "g", "i", "t">> (* .git *)))]
        ELSE [owner |-> None, repo |-> None]

\* not x, for an optional text
Falsy(opt) == ~opt.some \/ opt.val = <<>>

\* _extract_file_paths
RECURSIVE ExtractFilePaths(_)
ExtractFilePaths(tree) ==
    IF tree = <<>> THEN <<>>
    ELSE (IF Head(tree).type = "blob" THEN <<Head(tree).path>> ELSE <<>>)
         \o ExtractFilePaths(Tail(tree))

(* The nested mapping built by _build_file_structure is kept as a set of    *)
(* <<node, kind>> pairs: node is the tuple of path segments leading to an   *)
(* entry, kind is "file" for the leaf marker and "dir" for a mapping.       *)
Nodes(structure) == {e[1] : e \in structure}

\* One iteration of the outer loop of _build_file_structure.  Descending
\* through an entry that holds the leaf marker raises TypeError.
InsertItem(st, item) ==
    LET path_parts == Split(item.path, "/")
        n          == Len(path_parts)
        prefixes   == {SubSeq(path_parts, 1, i) : i \in 1..(n - 1)}
        raises     == \E p \in prefixes : <<p, "file">> \in st.structure
        withDirs   == st.structure \cup
                      {<<p, "dir">> : p \in prefixes \ Nodes(st.structure)}
        Under(q)   == Len(q) > n /\ SubSeq(q, 1, n) = path_parts
        kept       == {e \in withDirs : e[1] # path_parts /\ ~Under(e[1])}
        kind       == IF item.type = "blob" THEN "file" ELSE "dir"
    IN  IF st.raised \/ raises
        THEN [raised |-> TRUE, structure |-> {}]
        ELSE [raised |-> FALSE,
              structure |-> kept \cup {<<path_parts, kind>>}]

\* _build_file_structure
RECURSIVE BuildFrom(_, _)
BuildFrom(st, tree) ==
    IF tree = <<>> THEN st
    ELSE BuildFrom(InsertItem(st, Head(tree)), Tail(tree))

BuildFileStructure(tree) ==
    BuildFrom([raised |-> FALSE, structure |-> {}], tree)

\* What _get_file_content returns when the content cannot be read.
Unreadable == "[Unreadable]"

FileText == "content"

IsManifestItem(item) ==
    LET IsManifest(cf) == EndsWith(item.path, cf)
    IN  \E i \in 1..Len(config_files) : IsManifest(config_files[i])

\* An exception that leaves _get_file_content.
ContentRaised == "raised"

\* _get_file_content without its except clauses (lines 192-197).
GetFileContentUncaught(path, unreadable) ==
    IF path \in unreadable THEN ContentRaised ELSE FileText

\* _get_file_content
GetFileContent(path, unreadable) ==
    IF path \in unreadable THEN Unreadable ELSE FileText

\* _analyze_dependencies: the mapping path -> content, as a set of pairs
AnalyzeDependencies(tree, unreadable) ==
    {<<tree[i].path, GetFileContent(tree[i].path, unreadable)>> :
        i \in {j \in 1..Len(tree) : IsManifestItem(tree[j])}}

ContentCalls(tree) ==
    LET manifests == SelectSeq(tree, IsManifestItem)
    IN  [i \in 1..Len(manifests) |->
            [op |-> "get_content", path |-> manifests[i].path]]

RepoError(msg) == [error |-> msg]

NoRepoResult == [pending |-> TRUE]

\* _get_github_credentials and the test that follows it (lines 24-26, 64-78)
GetGithubCredentials ==
    /\ rp_pc = "credentials"
    /\ rp_calls' = IF rp_secret = "unset" THEN rp_calls
                   ELSE Append(rp_calls, [op |-> "get_secret_value"])
    /\ IF rp_secret = "ok"
       THEN rp_pc' = "parse" /\ UNCHANGED rp_result
       ELSE /\ rp_pc' = "done"
            /\ rp_result' = RepoError("Failed to retrieve GitHub credentials")
    /\ UNCHANGED <<rp_secret, rp_repo_url, rp_hosting, rp_tree_data>>
    /\ UNCHANGED <<spVars, lgVars, orVars>>

\* _parse_github_url and the test that follows it (lines 27-31)
ParseUrl ==
    /\ rp_pc = "parse"
    /\ LET parsed == ParseGithubUrl(rp_repo_url)
       IN  IF Falsy(parsed.owner) \/ Falsy(parsed.repo)
           THEN /\ rp_pc' = "done"
                /\ rp_result' = RepoError("Invalid GitHub URL format")
           ELSE rp_pc' = "tree" /\ UNCHANGED rp_result
    /\ UNCHANGED <<rp_secret, rp_repo_url, rp_hosting, rp_calls, rp_tree_data>>
    /\ UNCHANGED <<spVars, lgVars, orVars>>

\* _get_repo_tree and the test that follows it (lines 32-34)
GetRepoTree ==
    /\ rp_pc = "tree"
    /\ rp_calls' = Append(rp_calls, [op |-> "get_tree"])
    /\ IF rp_hosting.tree_ok
       THEN /\ rp_pc' = "analyze"
            /\ rp_tree_data' = rp_hosting.tree
            /\ UNCHANGED rp_result
       ELSE /\ rp_pc' = "done"
            /\ rp_result' = RepoError("Failed to fetch repository tree")
            /\ UNCHANGED rp_tree_data
    /\ UNCHANGED <<rp_secret, rp_repo_url, rp_hosting>>
    /\ UNCHANGED <<spVars, lgVars, orVars>>

\* Lines 35-59: file structure, file paths, dependencies, classification.
\* An exception out of any of them is caught at lines 58-59.
AnalyzeTree ==
    /\ rp_pc = "analyze"
    /\ LET built        == BuildFileStructure(rp_tree_data)
           file_paths   == ExtractFilePaths(rp_tree_data)
           dependencies == AnalyzeDependencies(rp_tree_data,
                                               rp_hosting.unreadable)
       IN  IF built.raised
           THEN /\ rp_result' = RepoError("TypeError")
                /\ UNCHANGED rp_calls
           ELSE IF \E d \in dependencies : d[2] = ContentRaised
           THEN /\ rp_result' = RepoError("content")
                /\ rp_calls' = rp_calls \o ContentCalls(rp_tree_data)
           ELSE /\ rp_calls' = rp_calls \o ContentCalls(rp_tree_data)
                /\ rp_result' =
                     [ status         |-> "success",
                       repo_url       |-> rp_repo_url,
                       file_structure |-> built.structure,
                       file_paths     |-> file_paths,
                       dependencies   |-> dependencies,
                       total_files    |-> Len(file_paths),
                       analysis       |-> Classify(file_paths) ]
    /\ rp_pc' = "done"
    /\ UNCHANGED <<rp_secret, rp_repo_url, rp_hosting, rp_tree_data>>
    /\ UNCHANGED <<spVars, lgVars, orVars>>

RepoNext == GetGithubCredentials \/ ParseUrl \/ GetRepoTree \/ AnalyzeTree

(***************************************************************************)
(* Initial states of one analyze_repository_structure call                 *)
(***************************************************************************)
Blob(path) == [path |-> path, type |-> "blob"]

Tree(path) == [path |-> path, type |-> "tree"]

AppPy == <<"s", "r", "c", "/", "a", "p", "p", ".", "p", "y">> (* src/app.py *)

RequirementsTxt == <<"r", "e", "q", "u", "i", "r", "e", "m", "e", "n", "t", "s", ".", "t", "x", "t">> (* requirements.txt *)

Dockerfile == <<"D", "o", "c", "k", "e", "r", "f", "i", "l", "e">> (* Dockerfile *)

\* Entries a tree listing is drawn from.  The last one lists src as a file
\* although other entries lie below it.
TreeItems ==
    { Blob(AppPy), Blob(RequirementsTxt), Blob(Dockerfile), Tree(<<"s", "r", "c">> (* src *)),
      Blob(<<"d", "e", "p", "l", "o", "y", "/", "k", "8", "s", ".", "y", "a", "m", "l">> (* deploy/k8s.yaml *)), Blob(<<"R", "E", "A", "D", "M", "E", ".", "m", "d">> (* README.md *)), Blob(<<"s", "r", "c">> (* src *)) }

Distinct(seq) == \A i, j \in 1..Len(seq) : i # j => seq[i] # seq[j]

TreeListings == {t \in SeqsUpTo(TreeItems, MaxTree) : Distinct(t)}

ManifestPaths(tree) ==
    {tree[i].path : i \in {j \in 1..Len(tree) : IsManifestItem(tree[j])}}

GoodUrlPath == <<"/", "o", "/", "r", ".", "g", "i", "t">> (* /o/r.git *)

UrlPaths ==
    { GoodUrlPath, <<"/", "o", "/", "r">> (* /o/r *), <<"/", "o">> (* /o *), <<"/", "o", "/">> (* /o/ *), <<>>, <<"/", "o", "/", "/", "r">> (* /o//r *),
      <<"/", "o", "/", ".", "g", "i", "t">> (* /o/.git *) }

SecretStates == {"unset", "raise", "empty", "ok"}

RepoFrame ==
    /\ rp_pc = "credentials"
    /\ rp_calls = <<>>
    /\ rp_tree_data = <<>>
    /\ rp_result = NoRepoResult

\* Family 1: every secret state and URL against one listing.
RepoInitAccess ==
    /\ rp_secret \in SecretStates
    /\ rp_repo_url \in UrlPaths
    /\ \E ok \in BOOLEAN :
         rp_hosting = [tree_ok |-> ok, tree |-> <<Blob(AppPy)>>,
                       unreadable |-> {}]

\* Family 2: every listing, with any of its manifests unreadable.
RepoInitListings ==
    /\ rp_secret = "ok"
    /\ rp_repo_url = GoodUrlPath
    /\ \E t \in TreeListings : \E u \in SUBSET ManifestPaths(t) :
         rp_hosting = [tree_ok |-> TRUE, tree |-> t, unreadable |-> u]

RepoInit == RepoFrame /\ (RepoInitAccess \/ RepoInitListings)

RpIdle ==
    /\ rp_pc = "idle"
    /\ rp_secret = "unset"
    /\ rp_repo_url = <<>>
    /\ rp_hosting = [tree_ok |-> FALSE, tree |-> <<>>, unreadable |-> {}]
    /\ rp_calls = <<>>
    /\ rp_tree_data = <<>>
    /\ rp_result = NoRepoResult

(***************************************************************************)
(* supervisor_function.py : orchestrate_analysis                           *)
(***************************************************************************)
\* Payloads.  shape "none" is a payload that is no mapping, "no_event" a
\* mapping without the "event" key; detail tells whether event["detail"] is
\* absent, null or a mapping; serializable is FALSE when the event holds a
\* value json.dumps rejects.
Payloads ==
    {[shape |-> "none", detail |-> "absent", pipeline |-> None,
      stage |-> None, serializable |-> TRUE],
     [shape |-> "no_event", detail |-> "absent", pipeline |-> None,
      stage |-> None, serializable |-> TRUE]}
    \cup
    [shape : {"event"}, detail : {"absent", "null"}, pipeline : {None},
     stage : {None}, serializable : BOOLEAN]
    \cup
    [shape : {"event"}, detail : {"present"},
     pipeline : {None, Some(PipelineName)},
     stage : {None, Some(StageName)}, serializable : BOOLEAN]

\* Outcomes of the calls a run makes outside this module.
StageOutcomes == {"success", "error", "500"}

Environments ==
    [client_ok : BOOLEAN, lookup : {"branch", "no_source", "raise"},
     repo : StageOutcomes, logs : StageOutcomes, solution : StageOutcomes]

\* pipeline_event is None
NoEvent(payload) == payload.shape # "event"

\* What a stage entry point returns: statusCode 200 with the stage's result
\* or its {"error": ...} payload as body, 500 when the entry point itself
\* caught an exception.
StageResponse(outcome) ==
    [statusCode |-> IF outcome = "500" THEN 500 ELSE 200,
     body |-> IF outcome = "success" THEN "result" ELSE "error"]

NoResponse == [statusCode |-> 0, body |-> ""]

\* A stage entry point without its except clauses: a failure inside the
\* stage leaves the entry point as an exception.
StageBoundaryMissing(outcome) ==
    [raised |-> outcome # "success", response |-> StageResponse(outcome)]

\* The except clauses of a stage and of its entry point: whatever happens
\* inside the stage, the entry point returns a response.
StageBoundary(outcome) ==
    [raised |-> FALSE, response |-> StageResponse(outcome)]

NoOrResult == [pending |-> TRUE]

\* A run without the except clause of lines 94-95.
TopLevelCatchMissing(message) ==
    [escaped |-> TRUE, result |-> NoOrResult]

\* except Exception as e: return {"status": "error", "message": str(e)}
TopLevelCatch(message) ==
    [escaped |-> FALSE, result |-> [status |-> "error", message |-> message]]

\* An aggregation whose status follows the solution stage's payload.
AggregateResponseStatusFromStage(error_info, solution) ==
    [ status                   |-> IF solution.body = "error"
                                   THEN "error" ELSE "success",
      pipeline_info            |-> [name  |-> error_info.pipeline_name,
                                    stage |-> error_info.stage],
      solution_recommendations |-> [solution |-> solution] ]

\* _aggregate_response
AggregateResponse(error_info, solution) ==
    [ status                   |-> "success",
      pipeline_info            |-> [name  |-> error_info.pipeline_name,
                                    stage |-> error_info.stage],
      solution_recommendations |-> [solution |-> solution] ]

\* dict.get(key, "") for an optional text
GetOr(opt, default) == IF opt.some THEN opt.val ELSE default

\* _extract_error_info
ExtractErrorInfo(payload) ==
    IF NoEvent(payload) \/ payload.detail = "null"
    THEN [raised |-> TRUE, info |-> [pipeline_name |-> <<>>, stage |-> <<>>]]
    ELSE [raised |-> FALSE,
          info |-> [pipeline_name |-> GetOr(payload.pipeline, <<>>),
                    stage |-> GetOr(payload.stage, <<>>)]]

BranchName == <<"m", "a", "i", "n">> (* main *)

\* The body of the try block of get_pipeline_source_branch: every exception
\* is caught there and turned into None.
SourceBranch(payload, env) ==
    IF \/ NoEvent(payload) \/ payload.detail = "null"
       \/ Falsy(payload.pipeline)
       \/ env.lookup # "branch"
    THEN None ELSE Some(BranchName)

\* The statements of the try block with the first two exchanged.
NextStepExtractFirst(step) ==
    CASE step = "start"     -> "extract"
      [] step = "extract"   -> "branch"
      [] step = "branch"    -> "repo"
      [] step = "repo"      -> "logs"
      [] step = "logs"      -> "solution"
      [] step = "solution"  -> "aggregate"
      [] step = "aggregate" -> "done"

\* The statement that follows `step` in the try block of lines 75-92.
NextStep(step) ==
    CASE step = "start"     -> "branch"
      [] step = "branch"    -> "extract"
      [] step = "extract"   -> "repo"
      [] step = "repo"      -> "logs"
      [] step = "logs"      -> "solution"
      [] step = "solution"  -> "aggregate"
      [] step = "aggregate" -> "done"

\* Leaving orchestrate_analysis through the except clause.
Raise(message) ==
    LET c == TopLevelCatch(message)
    IN  /\ or_pc' = "done"
        /\ or_escaped' = c.escaped
        /\ or_result' = c.result

\* pipeline_event = payload.get("event")
GetEvent ==
    /\ or_pc = "start"
    /\ or_trace' = Append(or_trace, "get_event")
    /\ IF or_payload.shape = "none"
       THEN Raise("AttributeError")
       ELSE or_pc' = NextStep(or_pc) /\ UNCHANGED <<or_escaped, or_result>>
    /\ UNCHANGED <<or_payload, or_env, or_branch_name, or_error_info,
                   or_repo_structure, or_analyzed_logs, or_solution>>
    /\ UNCHANGED <<spVars, lgVars, rpVars>>

\* branch_name = get_pipeline_source_branch(pipeline_event); the client is
\* created before the try block.
GetPipelineSourceBranch ==
    /\ or_pc = "branch"
    /\ or_trace' = Append(or_trace, "resolve_branch")
    /\ IF ~or_env.client_ok
       THEN Raise("client") /\ UNCHANGED or_branch_name
       ELSE /\ or_pc' = NextStep(or_pc)
            /\ or_branch_name' = SourceBranch(or_payload, or_env)
            /\ UNCHANGED <<or_escaped, or_result>>
    /\ UNCHANGED <<or_payload, or_env, or_error_info, or_repo_structure,
                   or_analyzed_logs, or_solution>>
    /\ UNCHANGED <<spVars, lgVars, rpVars>>

\* error_info = _extract_error_info(pipeline_event)
ExtractError ==
    /\ or_pc = "extract"
    /\ or_trace' = Append(or_trace, "extract_error")
    /\ LET r == ExtractErrorInfo(or_payload)
       IN  IF r.raised
           THEN Raise("AttributeError") /\ UNCHANGED or_error_info
           ELSE /\ or_pc' = NextStep(or_pc)
                /\ or_error_info' = r.info
                /\ UNCHANGED <<or_escaped, or_result>>
    /\ UNCHANGED <<or_payload, or_env, or_branch_name, or_repo_structure,
                   or_analyzed_logs, or_solution>>
    /\ UNCHANGED <<spVars, lgVars, rpVars>>

\* repo_structure = handle_repo_structure({"branch_name": branch_name})
HandleRepoStructure ==
    /\ or_pc = "repo"
    /\ or_trace' = Append(or_trace, "analyze_repo")
    /\ LET b == StageBoundary(or_env.repo)
       IN  IF b.raised
           THEN Raise("repo") /\ UNCHANGED or_repo_structure
           ELSE /\ or_repo_structure' = b.response
                /\ or_pc' = NextStep(or_pc)
                /\ UNCHANGED <<or_escaped, or_result>>
    /\ UNCHANGED <<or_payload, or_env, or_branch_name, or_error_info,
                   or_analyzed_logs, or_solution>>
    /\ UNCHANGED <<spVars, lgVars, rpVars>>

\* analyzed_logs = handle_log_analysis({...}); json.dumps(event) runs before
\* the try block of the entry point.  Log-group resolution fails for an
\* event without a stage, so such a run never has a successful log result.
HandleLogAnalysis ==
    /\ or_pc = "logs"
    /\ or_trace' = Append(or_trace, "analyze_logs")
    /\ LET b == StageBoundary(IF or_env.logs = "success"
                                 /\ Falsy(or_payload.stage)
                              THEN "error" ELSE or_env.logs)
       IN  IF ~or_payload.serializable
           THEN Raise("TypeError") /\ UNCHANGED or_analyzed_logs
           ELSE IF b.raised
           THEN Raise("logs") /\ UNCHANGED or_analyzed_logs
           ELSE /\ or_pc' = NextStep(or_pc)
                /\ or_analyzed_logs' = b.response
                /\ UNCHANGED <<or_escaped, or_result>>
    /\ UNCHANGED <<or_payload, or_env, or_branch_name, or_error_info,
                   or_repo_structure, or_solution>>
    /\ UNCHANGED <<spVars, lgVars, rpVars>>

\* solution = handle_solution_provider({...})
HandleSolutionProvider ==
    /\ or_pc = "solution"
    /\ or_trace' = Append(or_trace, "synthesize_solution")
    /\ LET b == StageBoundary(or_env.solution)
       IN  IF b.raised
           THEN Raise("solution") /\ UNCHANGED or_solution
           ELSE /\ or_solution' = b.response
                /\ or_pc' = NextStep(or_pc)
                /\ UNCHANGED <<or_escaped, or_result>>
    /\ UNCHANGED <<or_payload, or_env, or_branch_name, or_error_info,
                   or_repo_structure, or_analyzed_logs>>
    /\ UNCHANGED <<spVars, lgVars, rpVars>>

\* return _aggregate_response(error_info, solution)
Aggregate ==
    /\ or_pc = "aggregate"
    /\ or_trace' = Append(or_trace, "aggregate")
    /\ or_result' = AggregateResponse(or_error_info, or_solution)
    /\ or_pc' = NextStep(or_pc)
    /\ UNCHANGED <<or_payload, or_env, or_branch_name, or_error_info,
                   or_repo_structure, or_analyzed_logs, or_solution,
                   or_escaped>>
    /\ UNCHANGED <<spVars, lgVars, rpVars>>

OrchestrateNext ==
    \/ GetEvent
    \/ GetPipelineSourceBranch
    \/ ExtractError
    \/ HandleRepoStructure
    \/ HandleLogAnalysis
    \/ HandleSolutionProvider
    \/ Aggregate

OrFrame ==
    /\ or_branch_name = None
    /\ or_error_info = [pipeline_name |-> <<>>, stage |-> <<>>]
    /\ or_repo_structure = NoResponse
    /\ or_analyzed_logs = NoResponse
    /\ or_solution = NoResponse
    /\ or_trace = <<>>
    /\ or_escaped = FALSE
    /\ or_result = NoOrResult

OrchestrateStart ==
    /\ or_pc = "start"
    /\ or_payload \in Payloads
    /\ or_env \in Environments
    /\ OrFrame

OrIdle ==
    /\ or_pc = "idle"
    /\ or_payload = [shape |-> "none", detail |-> "absent", pipeline |-> None,
                     stage |-> None, serializable |-> TRUE]
    /\ or_env = [client_ok |-> TRUE, lookup |-> "raise", repo |-> "500",
                 logs |-> "500", solution |-> "500"]
    /\ OrFrame

(***************************************************************************)
(* Specifications                                                          *)
(***************************************************************************)
IdentifyInit == SpInit /\ LgIdle /\ RpIdle /\ OrIdle

SpecIdentify == IdentifyInit /\ [][SpNext]_vars

FetchLogsInit == SpIdle /\ FetchInit /\ RpIdle /\ OrIdle

SpecFetch == FetchLogsInit /\ [][FetchNext]_vars

PagingLoopsInit == SpIdle /\ PagingInit /\ RpIdle /\ OrIdle

\* The fetch is sequential code: a pagination loop that can read, reads.
SpecPaging == PagingLoopsInit /\ [][FetchNext]_vars /\ WF_vars(GetLogEvents)

AnalyzeLogsInit == SpIdle /\ AnalyzeInit /\ RpIdle /\ OrIdle

SpecAnalyze == AnalyzeLogsInit /\ [][AnalyzeNext]_vars

RepoStructureInit == SpIdle /\ LgIdle /\ RepoInit /\ OrIdle

SpecRepo == RepoStructureInit /\ [][RepoNext]_vars

OrchestrateInit == SpIdle /\ LgIdle /\ RpIdle /\ OrchestrateStart

SpecOrchestrate == OrchestrateInit /\ [][OrchestrateNext]_vars

\* orchestrate_analysis is sequential code: an enabled step is taken.
SpecOrchestrateLive == SpecOrchestrate /\ WF_vars(OrchestrateNext)
(***************************************************************************)
(* Claims                                                                  *)
(***************************************************************************)
SuppliedFiles == AvailableFiles(sp_repo_structure.record)

\* C1: for every supplied file list and every text the language model may
\* return, _identify_problematic_file does not raise and returns None or an
\* element of the supplied file list.
C1_OutputInFileListOrNone ==
    sp_pc # "identify" =>
        /\ ~sp_identify_raised
        /\ problematic_file.some => InList(problematic_file.val, SuppliedFiles)

\* C1 witness: the model named a file that is absent from a non-empty
\* supplied list, and the call returned None.
C1_Witness ==
    /\ sp_pc = "fetch"
    /\ sp_calls = <<"bedrock_simple">>
    /\ SuppliedFiles # <<>>
    /\ CleanResponse(sp_response) \notin {NONE, <<>>}
    /\ ~InList(CleanResponse(sp_response), SuppliedFiles)
    /\ problematic_file = None

\* ---- claims about _fetch_logs_in_timeframe
Fetched == lg_pc \in {"fetched", "done"} /\ log_bundle # NoBundle

WindowPresent ==
    /\ start_time.some
    /\ end_time.some
    /\ start_time.val <= end_time.val

\* The read requests made for native-kind groups.
NativeReads ==
    {i \in 1..Len(log_requests) :
        /\ log_requests[i].op = "get_log_events"
        /\ log_requests[i].kind = "native"}

\* C2 as stated: with both ends of the window present and start <= end,
\* every read for a native-kind group uses [end - 30min, end], and none uses
\* the full window [start, end].
C2_NativeNeverFullWindow ==
    WindowPresent =>
        \A i \in NativeReads :
            /\ log_requests[i].startTime = end_time.val - 30 * Minute
            /\ log_requests[i].endTime = end_time.val
            /\ ~(/\ log_requests[i].startTime = start_time.val
                 /\ log_requests[i].endTime = end_time.val)

\* C2 amended: with both ends of the window present and start <= end, every
\* read for a native-kind group uses exactly [end - 30min, end], whatever
\* start is; that range is the full window only when the window is exactly
\* 30 minutes long.
C2_NativeWindow ==
    WindowPresent =>
        \A i \in NativeReads :
            /\ log_requests[i].startTime = end_time.val - 30 * Minute
            /\ log_requests[i].endTime = end_time.val
            /\ (log_requests[i].startTime = start_time.val
                    => end_time.val - start_time.val = 30 * Minute)

\* C2 witness: a native-kind group was read in a 60-minute window.
C2_Witness ==
    /\ WindowPresent
    /\ end_time.val - start_time.val = 60 * Minute
    /\ NativeReads # {}
    /\ \E i \in NativeReads : log_requests[i].returned > 0

Indices(seq, x) == {i \in 1..Len(seq) : seq[i] = x}

FirstIndex(seq, x) ==
    CHOOSE i \in Indices(seq, x) : \A j \in Indices(seq, x) : i <= j

LastIndex(seq, x) ==
    CHOOSE i \in Indices(seq, x) : \A j \in Indices(seq, x) : j <= i

\* C3: the logs of the bundle are sorted by timestamp ascending, and two
\* neighbouring entries with equal timestamps are in the order in which they
\* were collected.
C3_SortedStableByArrival ==
    Fetched =>
        LET logs == log_bundle.logs
        IN  \A i \in 1..(Len(logs) - 1) :
                /\ logs[i].timestamp <= logs[i + 1].timestamp
                /\ (logs[i].timestamp = logs[i + 1].timestamp
                        => FirstIndex(all_logs, logs[i])
                               <= LastIndex(all_logs, logs[i + 1]))

CountOf(seq, x) == Cardinality(Indices(seq, x))

NativeIn(seq) == {i \in 1..Len(seq) : seq[i].type = "native"}

EventIn(seq) == {i \in 1..Len(seq) : seq[i].type = "event"}

\* The kept native entries are the latest of the collected ones: every
\* collected native entry later than the earliest kept one is kept.
KeptAreLatest(logs, collected) ==
    \A i \in NativeIn(logs) :
        (\A j \in NativeIn(logs) : logs[i].timestamp <= logs[j].timestamp)
            => Cardinality({j \in NativeIn(collected) :
                                collected[j].timestamp > logs[i].timestamp})
               = Cardinality({j \in NativeIn(logs) :
                                logs[j].timestamp > logs[i].timestamp})

\* C4: every event-kind entry collected appears in the bundle; when more
\* than 50 native-kind entries were collected exactly the 50 with the latest
\* timestamps appear, and all of them when 50 or fewer were collected.
C4_EventsKeptNativeLast50 ==
    Fetched =>
        LET logs == log_bundle.logs
        IN  /\ \A i \in EventIn(all_logs) :
                  CountOf(logs, all_logs[i]) = CountOf(all_logs, all_logs[i])
            /\ \A i \in 1..Len(logs) : CountOf(all_logs, logs[i]) > 0
            /\ Cardinality(NativeIn(logs)) =
                  (IF Cardinality(NativeIn(all_logs)) > 50 THEN 50
                   ELSE Cardinality(NativeIn(all_logs)))
            /\ KeptAreLatest(logs, all_logs)

\* C4 witness: more than 50 native entries with different timestamps and an
\* event entry were collected from two log groups.
C4_Witness ==
    /\ Fetched
    /\ Cardinality(NativeIn(all_logs)) > 50
    /\ EventIn(all_logs) # {}
    /\ \E i, j \in NativeIn(all_logs) :
          all_logs[i].timestamp < all_logs[j].timestamp

\* C5: len(logs) == total_events + min(total_native, 50) for every bundle.
C5_BundleLength ==
    Fetched =>
        Len(log_bundle.logs) =
            log_bundle.total_events
            + (IF log_bundle.total_native < 50 THEN log_bundle.total_native
               ELSE 50)

\* C5 witness: a bundle of more than 50 native entries, built after one log
\* group failed.
C5_Witness ==
    /\ Fetched
    /\ log_bundle.total_native > 50
    /\ \E i \in 1..Len(log_requests) :
          /\ log_requests[i].op = "get_log_events"
          /\ log_requests[i].raised

\* ---- claims about _get_log_groups_from_ssm and analyze_logs
\* The resolution returned a list (it did not raise).
Resolved ==
    \/ lg_pc \in {"fetch", "group", "page", "fetched"}
    \/ /\ lg_pc = "done"
       /\ "status" \in DOMAIN lg_result
       /\ lg_result.status = "success"

ProviderIsCodeBuild ==
    pipeline_event.provider.some /\ pipeline_event.provider.val = CodeBuild

\* The parameter the resolver reads for the qualifier.
EventParam(qualifier) ==
    ParamPath(lg_pipeline_name, pipeline_event.stage.val,
              pipeline_event.action.val, qualifier)

ParamExists(qualifier) ==
    /\ EventParam(qualifier) \in DOMAIN ssm
    /\ ssm[EventParam(qualifier)].status = "found"

NonBlank(value) ==
    \E i \in 1..Len(value) : value[i] \notin {" ", "\t", "\n"}

ParamNonBlank(qualifier) ==
    ParamExists(qualifier) /\ NonBlank(ssm[EventParam(qualifier)].value)

\* C6 as stated: when the resolution returns, it returns exactly 2 log
\* groups for CodeBuild with both parameters existing, whatever their values,
\* and exactly 1 for any other provider.
C6_TwoForCodeBuildAnyValues ==
    Resolved =>
        IF ProviderIsCodeBuild
        THEN (ParamExists(CodeBuildEventQualifier)
              /\ ParamExists(CodeBuildNativeQualifier))
                 => Len(log_groups_list) = 2
        ELSE Len(log_groups_list) = 1

\* C6 amended: when the resolution returns, for CodeBuild with both
\* parameters existing it returns exactly 2 log groups if both values are
\* non-blank and exactly 1 if only one of them is; for any other provider it
\* returns exactly 1.
C6_TwoForCodeBuildNonBlank ==
    Resolved =>
        IF ProviderIsCodeBuild
        THEN /\ ParamExists(CodeBuildEventQualifier)
             /\ ParamExists(CodeBuildNativeQualifier)
             /\ Len(log_groups_list) =
                   (IF ParamNonBlank(CodeBuildEventQualifier) THEN 1 ELSE 0)
                   + (IF ParamNonBlank(CodeBuildNativeQualifier) THEN 1 ELSE 0)
             /\ Len(log_groups_list) >= 1
        ELSE Len(log_groups_list) = 1

\* C6 witness: CodeBuild resolved to two groups, one of them from a value
\* padded with whitespace.
C6_Witness ==
    /\ Resolved
    /\ ProviderIsCodeBuild
    /\ Len(log_groups_list) = 2
    /\ ssm[EventParam(CodeBuildNativeQualifier)].value # log_groups_list[2]

FieldAbsentOrEmpty(field) == ~field.some \/ field.val = <<>>

EventLacksField ==
    \/ FieldAbsentOrEmpty(pipeline_event.stage)
    \/ FieldAbsentOrEmpty(pipeline_event.action)
    \/ FieldAbsentOrEmpty(pipeline_event.provider)

\* C7: in a run on an event whose stage, action or provider is absent or
\* empty, the log store and the configuration store are never called, and
\* the resolution fails.
C7_MissingFieldNoCalls ==
    EventLacksField =>
        /\ log_requests = <<>>
        /\ ssm_calls = <<>>
        /\ (lg_pc \notin {"timeframe", "resolve"}
               => /\ lg_pc = "done"
                  /\ lg_result = [error |-> "missing_field"])

\* C7 witness: the run ended on an event with a stage and an action but an
\* empty provider, after the execution window was found.
C7_Witness ==
    /\ lg_pc = "done"
    /\ ~FieldAbsentOrEmpty(pipeline_event.stage)
    /\ ~FieldAbsentOrEmpty(pipeline_event.action)
    /\ pipeline_event.provider = Some(<<>>)
    /\ start_time.some
    /\ "error" \in DOMAIN lg_result

\* ---- the end-to-end scenario of the log fetch
\* A CodeBuild failure with window [T0, T0 + 5min], one event entry at
\* T0 + 1min and 120 native entries, served by a log store that answers
\* every call with a non-empty page and a token while entries remain.
Scenario120 ==
    /\ log_groups_list = <<GE, GN>>
    /\ start_time = SomeTime(T0)
    /\ end_time = SomeTime(T0 + 5 * Minute)
    /\ store[GE].events = <<[timestamp |-> T0 + Minute, message |-> 1]>>
    /\ Len(store[GN].events) = 120
    /\ upstream_ok

RECURSIVE SumReturned(_)
SumReturned(reads) ==
    IF reads = {} THEN 0
    ELSE LET i == CHOOSE r \in reads : TRUE
         IN  log_requests[i].returned + SumReturned(reads \ {i})

\* Native entries fetched when each page of the native group ended.
NativePageEnds ==
    {SumReturned({j \in NativeReads : j <= i}) : i \in NativeReads}

\* C8 as stated: in the scenario the bundle holds 1 event entry and the 50
\* latest native entries, total_events = 1 and total_native = 120, however
\* the 120 native entries are split into pages.
C8_Scenario120AnyPaging ==
    (Fetched /\ Scenario120) =>
        /\ log_bundle.total_events = 1
        /\ log_bundle.total_native = 120
        /\ Cardinality(EventIn(log_bundle.logs)) = 1
        /\ Cardinality(NativeIn(log_bundle.logs)) = 50
        /\ KeptAreLatest(log_bundle.logs,
                         TagEvents(store[GN].events, GN, "native"))

\* C8 amended: in the scenario the bundle holds 1 event entry and 50 native
\* entries, the latest 50 of those fetched, and total_events = 1;
\* total_native is the number of native entries fetched when pagination
\* stopped: 120 when no page ends with 101 to 119 entries fetched (a single
\* page of 120 in particular), and otherwise the number fetched at that page
\* end.
C8_Scenario120 ==
    (Fetched /\ Scenario120) =>
        /\ log_bundle.total_events = 1
        /\ Cardinality(EventIn(log_bundle.logs)) = 1
        /\ Cardinality(NativeIn(log_bundle.logs)) = 50
        /\ KeptAreLatest(log_bundle.logs, all_logs)
        /\ (NativePageEnds \cap (101..119) = {}
               => log_bundle.total_native = 120)
        /\ \A n \in NativePageEnds \cap (101..119) :
               log_bundle.total_native = n

\* C8 witness: the scenario ended with all 120 native entries fetched in
\* more than one page.
C8_Witness ==
    /\ Fetched
    /\ Scenario120
    /\ log_bundle.total_native = 120
    /\ Cardinality(NativeReads) >= 2
    /\ \A i \in NativeReads : log_requests[i].returned > 0


(***************************************************************************)
(* C9: for a repository tree whose files are exactly src/app.py,           *)
(* requirements.txt and Dockerfile, the classification lists               *)
(* requirements.txt as config and build file, Dockerfile as config and     *)
(* deployment file, and src/app.py as source file and nothing else.        *)
(***************************************************************************)
Analyzed == rp_pc = "done" /\ "status" \in DOMAIN rp_result

ThreeFileTree ==
    Range(ExtractFilePaths(rp_tree_data)) = {AppPy, RequirementsTxt, Dockerfile}

ClassesOf(path) ==
    {c \in DOMAIN rp_result.analysis : InList(path, rp_result.analysis[c])}

C9_ThreeFileClassification ==
    (Analyzed /\ ThreeFileTree) =>
        /\ ClassesOf(RequirementsTxt) = {"config_files", "build_files"}
        /\ ClassesOf(Dockerfile) = {"config_files", "deployment_files"}
        /\ ClassesOf(AppPy) = {"source_files"}

(***************************************************************************)
(* C10: for every payload and every combination of stage outcomes,         *)
(* orchestrate_analysis ends, no exception leaves it, and what it returns  *)
(* is either {status, pipeline_info: {name, stage},                        *)
(* solution_recommendations: {solution}} or {status: "error", message};    *)
(* a run in which a step raised returns the second shape.                  *)
(***************************************************************************)
SuccessShape(r) ==
    /\ DOMAIN r = {"status", "pipeline_info", "solution_recommendations"}
    /\ DOMAIN r.pipeline_info = {"name", "stage"}
    /\ DOMAIN r.solution_recommendations = {"solution"}

ErrorShape(r) ==
    /\ DOMAIN r = {"status", "message"}
    /\ r.status = "error"

Returned == or_pc = "done"

\* A run that did not reach the aggregation is one in which a step raised.
StepRaised == ~InList("aggregate", or_trace)

C10_ResultShapes ==
    /\ [](~or_escaped)
    /\ [](Returned => \/ SuccessShape(or_result) /\ ~StepRaised
                      \/ ErrorShape(or_result) /\ StepRaised)
    /\ <>Returned

C10_Witness ==
    /\ Returned
    /\ or_trace = <<"get_event", "resolve_branch", "extract_error",
                    "analyze_repo", "analyze_logs">>
    /\ ErrorShape(or_result)

(***************************************************************************)
(* C11: in a run whose payload carries a failure event, a failure of the   *)
(* repository analysis and/or of the log analysis does not stop the run:   *)
(* the solution synthesis is still invoked afterwards and the orchestrator *)
(* returns a response with pipeline_info and solution_recommendations.     *)
(***************************************************************************)
\* The payload carries an event the supervisor can read, and the pipeline
\* client could be created.
CarriesFailureEvent ==
    /\ or_payload.shape = "event"
    /\ or_payload.detail # "null"
    /\ or_payload.serializable
    /\ or_env.client_ok

StageFailed(response) == response # NoResponse /\ response.body = "error"

SynthesisAfterEvidence ==
    \E i, j, k \in 1..Len(or_trace) :
        /\ i < j /\ j < k
        /\ or_trace[i] = "analyze_repo"
        /\ or_trace[j] = "analyze_logs"
        /\ or_trace[k] = "synthesize_solution"

C11_EvidenceFailureDoesNotStop ==
    (CarriesFailureEvent /\ Returned) =>
        /\ SynthesisAfterEvidence
        /\ SuccessShape(or_result)

C11_Witness ==
    /\ CarriesFailureEvent /\ Returned
    /\ StageFailed(or_repo_structure)
    /\ StageFailed(or_analyzed_logs)
    /\ SuccessShape(or_result)

(***************************************************************************)
(* C12: every pagination loop of the log fetch, for event-kind and for     *)
(* native-kind groups, ends against any log store, including one that      *)
(* answers every read with a non-empty page and a next-page token.         *)
(***************************************************************************)
C12_PageLoopsTerminate == (lg_pc = "page") ~> (lg_pc # "page")

(***************************************************************************)
(* C13: a failure while fetching one log group (the stream lookup or a    *)
(* page read raising) is skipped: every later log group of the list is     *)
(* still fetched, in list order, and _fetch_logs_in_timeframe returns a    *)
(* bundle.                                                                 *)
(***************************************************************************)
IsLookup(request) == request.op = "describe_log_streams"

\* The log groups whose stream was looked up, in the order of the lookups.
LookedUp ==
    LET lookups == SelectSeq(log_requests, IsLookup)
    IN  [i \in 1..Len(lookups) |-> lookups[i].log_group]

\* The request failed: a lookup of a group the store rejects, or a read that
\* raised.
FailedRequest(i) ==
    IF IsLookup(log_requests[i])
    THEN store[log_requests[i].log_group].streams = "raise"
    ELSE log_requests[i].raised

C13_FailedGroupSkipped ==
    /\ lg_pc = "group" => LookedUp = SubSeq(log_groups_list, 1, gi - 1)
    /\ lg_pc = "page" => LookedUp = SubSeq(log_groups_list, 1, gi)
    /\ lg_pc = "fetched" =>
          /\ LookedUp = log_groups_list
          /\ log_bundle.total_events + log_bundle.total_native = Len(all_logs)

\* C13 witness: a request for the first group failed, and the bundle holds
\* an entry of the second group.
C13_Witness ==
    /\ lg_pc = "fetched"
    /\ Len(log_groups_list) = 2
    /\ log_groups_list[1] # log_groups_list[2]
    /\ \E i \in 1..Len(log_requests) :
          /\ log_requests[i].log_group = log_groups_list[1]
          /\ FailedRequest(i)
    /\ \E k \in 1..Len(log_bundle.logs) :
          log_bundle.logs[k].log_group = log_groups_list[2]

(***************************************************************************)
(* C14: _get_pipeline_execution_timeframe returns the empty window, and    *)
(* does not raise, when the pipeline or the execution identifier is        *)
(* missing from the event or no listed execution has the identifier; and   *)
(* start_time and end_time of every window it returns are both present or  *)
(* both absent.                                                            *)
(***************************************************************************)
TimeframeReturned == lg_pc \in {"resolve", "fetch", "group", "page", "fetched", "done"}

NoMatchingExecution ==
    \A i \in 1..Len(registry.executions) :
        registry.executions[i].id # pipeline_event.execution_id.val

IdentifierMissing ==
    ~pipeline_event.pipeline.some \/ ~pipeline_event.execution_id.some

C14_EmptyWindowNotError ==
    /\ lg_pc = "timeframe" => ENABLED GetPipelineExecutionTimeframe
    /\ TimeframeReturned =>
          /\ start_time.some <=> end_time.some
          /\ (IdentifierMissing \/ NoMatchingExecution) =>
                <<start_time, end_time>> = EmptyWindow

\* C14 witness: executions are listed, none has the identifier of the event,
\* and the empty window was returned.
C14_Witness ==
    /\ lg_pc = "resolve"
    /\ <<start_time, end_time>> = EmptyWindow
    /\ ~IdentifierMissing
    /\ ~registry.raises
    /\ registry.executions # <<>>
    /\ NoMatchingExecution

(***************************************************************************)
(* C15: given a window whose start or end is absent,                       *)
(* _fetch_logs_in_timeframe does not fail and uses [now - 1 hour, now]:    *)
(* the reads of an event-kind group cover [now - 1h, now], the reads of a  *)
(* native-kind group end at now.                                           *)
(***************************************************************************)
GivenEmptyWindow == ~start_time.some \/ ~end_time.some

IsRead(request) == request.op = "get_log_events"

Reads == SelectSeq(log_requests, IsRead)

C15_DefaultWindow ==
    /\ lg_pc = "fetch" => ENABLED FetchStart
    /\ (GivenEmptyWindow /\ lg_pc \in {"group", "page", "fetched"}) =>
          /\ start_ms = NowMs - 60 * Minute
          /\ end_ms = NowMs
          /\ \A i \in 1..Len(Reads) :
                /\ Reads[i].endTime = NowMs
                /\ Reads[i].kind = "event" =>
                      Reads[i].startTime = NowMs - 60 * Minute

\* C15 witness: only the end of the window is absent, and an event-kind and
\* a native-kind group were both read.
C15_Witness ==
    /\ lg_pc = "fetched"
    /\ start_time.some
    /\ ~end_time.some
    /\ \E i, j \in 1..Len(Reads) :
          Reads[i].kind = "event" /\ Reads[j].kind = "native"

(***************************************************************************)
(* C16: _get_log_groups_from_ssm never returns an empty list: it returns   *)
(* at least one log-group identifier or fails.  A lookup key missing from  *)
(* the configuration store makes the resolution fail at once: no key is    *)
(* read after it or read twice, and no identifier found through the other  *)
(* key is returned.                                                        *)
(***************************************************************************)
ResolutionFailed == lg_pc = "done" /\ "error" \in DOMAIN lg_result

KeyMissing(path) == SsmGet(path).status = "notfound"

C16_NeverEmptyList ==
    /\ Resolved => Len(log_groups_list) >= 1
    /\ \A i, j \in 1..Len(ssm_calls) : ssm_calls[i] = ssm_calls[j] => i = j
    /\ \A i \in 1..Len(ssm_calls) :
          KeyMissing(ssm_calls[i]) =>
              /\ i = Len(ssm_calls)
              /\ ResolutionFailed
              /\ lg_result = [error |-> "ssm_not_found"]
              /\ log_groups_list = <<>>
              /\ log_requests = <<>>

\* C16 witness: the build provider's event key held a log group, its native
\* key is missing, and the resolution failed after reading both.
C16_Witness ==
    /\ ResolutionFailed
    /\ Len(ssm_calls) = 2
    /\ KeepLogGroup(SsmGet(ssm_calls[1]).value).keep
    /\ KeyMissing(ssm_calls[2])

(***************************************************************************)
(* C17: a stage failure is converted at the stage's boundary into a        *)
(* payload that carries a status: "error" marker together with the         *)
(* failing stage's message.  Stated for the repository analysis: a run of  *)
(* analyze_repository_structure that fails returns a payload whose status  *)
(* is "error" and that holds the message.                                  *)
(***************************************************************************)
RepoStageFailed ==
    /\ rp_pc = "done"
    /\ \/ rp_secret # "ok"
       \/ Falsy(ParseGithubUrl(rp_repo_url).owner)
       \/ Falsy(ParseGithubUrl(rp_repo_url).repo)
       \/ ~rp_hosting.tree_ok
       \/ BuildFileStructure(rp_hosting.tree).raised

C17_FailureCarriesStatusError ==
    RepoStageFailed =>
        /\ "status" \in DOMAIN rp_result
        /\ rp_result.status = "error"
        /\ "error" \in DOMAIN rp_result

(***************************************************************************)
(* C18: a resolved log group is fetched under the kind of the              *)
(* configuration key it was resolved through: for the build provider the   *)
(* group of the event key as event-kind and the group of the native key as *)
(* native-kind, for every other provider the single group as event-kind,   *)
(* whatever the log-group identifier is.                                   *)
(***************************************************************************)
HoldsGroup(path) == KeepLogGroup(SsmGet(path).value).keep

KeyKind(path) ==
    IF path.qualifier = CodeBuildNativeQualifier THEN "native" ELSE "event"

\* The kinds of the keys behind log_groups_list, in list order.
KeyKinds ==
    LET kept == SelectSeq(LookupPaths(lg_pipeline_name, pipeline_event),
                          HoldsGroup)
    IN  [i \in 1..Len(kept) |-> KeyKind(kept[i])]

C18_KindFollowsKey ==
    (lg_pc = "page" /\ ssm_calls # <<>>) => lg_kind = KeyKinds[gi]

(***************************************************************************)
(* C19: the native-kind fetch of one log group is capped.  As stated: once *)
(* 100 events have been collected for the group no further page is         *)
(* requested.  Amended: no further page is requested once more than 100    *)
(* events have been collected; with exactly 100 collected the next page is *)
(* still requested.                                                        *)
(***************************************************************************)
\* The native loop is about to request a page.
NativePageDue == lg_pc = "page" /\ lg_kind = "native"

\* C19 as stated: a page is requested only with fewer than 100 collected.
C19_NoPageAtHundred == NativePageDue => Len(lg_events) < 100

\* C19 amended: a page is requested only with at most 100 collected.
C19_NoPageBeyondHundred == NativePageDue => Len(lg_events) <= 100

\* C19 witness: 120 native entries in the window, pages that brought the
\* count to exactly 100, and a further page that was read after that.
C19_Witness ==
    /\ lg_pc = "fetched"
    /\ Scenario120
    /\ 100 \in NativePageEnds
    /\ 120 \in NativePageEnds

(***************************************************************************)
(* C20: for an event-kind log group the events collected are all the       *)
(* events the log store holds for the stream inside [start, end], however  *)
(* the store divides them into pages, a page that is empty while a later   *)
(* page still holds events included.                                       *)
(***************************************************************************)
EventLoopReads ==
    {i \in 1..Len(log_requests) :
        IsRead(log_requests[i]) /\ log_requests[i].kind = "event"}

HeldInWindow(log_group) ==
    EventsInRange(store[log_group].events, start_ms, end_ms)

\* No read raised, and every answer that left events undelivered carried a
\* next-page token: the store offered every event of the window.
StoreOffersAll(log_group) ==
    \A i \in EventLoopReads :
        /\ ~log_requests[i].raised
        /\ SumReturned({j \in EventLoopReads : j <= i})
               < Len(HeldInWindow(log_group))
             => log_requests[i].has_token

OneEventGroupFetched ==
    /\ lg_pc = "fetched"
    /\ log_groups_list = <<GE>>
    /\ store[GE].streams = "one"

C20_AllEventsCollected ==
    (OneEventGroupFetched /\ StoreOffersAll(GE)) =>
        all_logs = TagEvents(HeldInWindow(GE), GE, "event")

(***************************************************************************)
(* C21: in a run of orchestrate_analysis that raises no exception the      *)
(* steps are entered once each, none is re-entered, and they occur in one  *)
(* fixed order.  As stated the order is extract error info, resolve        *)
(* branch, analyze repository, analyze logs, synthesize solution,          *)
(* aggregate; amended, the branch is resolved before the error info is     *)
(* extracted.                                                              *)
(***************************************************************************)
IsStep(entry) == entry # "get_event"

\* The steps entered so far, in the order they were entered.
StepsEntered == SelectSeq(or_trace, IsStep)

NoStepReentered ==
    \A i, j \in 1..Len(or_trace) : or_trace[i] = or_trace[j] => i = j

RanWithoutException == Returned /\ ~StepRaised

\* C21 as stated.
C21_StepOrderExtractFirst ==
    /\ NoStepReentered
    /\ RanWithoutException =>
          StepsEntered = <<"extract_error", "resolve_branch", "analyze_repo",
                           "analyze_logs", "synthesize_solution", "aggregate">>

\* C21 amended.
C21_StepOrder ==
    /\ NoStepReentered
    /\ RanWithoutException =>
          StepsEntered = <<"resolve_branch", "extract_error", "analyze_repo",
                           "analyze_logs", "synthesize_solution", "aggregate">>

\* C21 witness: a run that raised nothing although two stages returned an
\* error payload.
C21_Witness ==
    /\ RanWithoutException
    /\ StageFailed(or_repo_structure)
    /\ StageFailed(or_solution)

(***************************************************************************)
(* C22: analyze_repository_structure makes no request to the hosting API   *)
(* unless credentials were obtained from the secret store and the          *)
(* repository URL parsed into a non-empty owner and repository name;       *)
(* absent credentials, a URL with fewer than two path segments, and a      *)
(* non-2xx tree response each make it return an {error: ...} payload.      *)
(***************************************************************************)
IsHostingCall(call) == call.op \in {"get_tree", "get_content"}

HostingCalls == SelectSeq(rp_calls, IsHostingCall)

UrlSegments == Split(StripChars(rp_repo_url, {"/"}), "/")

OwnerAndRepoNamed ==
    /\ Len(UrlSegments) >= 2
    /\ UrlSegments[1] # <<>>
    /\ Remove(UrlSegments[2], <<".", "g", "i", "t">>) # <<>>

ErrorPayload(r) == DOMAIN r = {"error"}

C22_NoHostingCallWithoutAccess ==
    /\ HostingCalls # <<>> => (rp_secret = "ok" /\ OwnerAndRepoNamed)
    /\ rp_pc = "done" =>
          /\ rp_secret # "ok" =>
                rp_result = [error |-> "Failed to retrieve GitHub credentials"]
          /\ (rp_secret = "ok" /\ Len(UrlSegments) < 2) =>
                rp_result = [error |-> "Invalid GitHub URL format"]
          /\ (rp_secret = "ok" /\ OwnerAndRepoNamed /\ ~rp_hosting.tree_ok) =>
                rp_result = [error |-> "Failed to fetch repository tree"]
          /\ (rp_secret # "ok" \/ ~OwnerAndRepoNamed \/ ~rp_hosting.tree_ok) =>
                ErrorPayload(rp_result)

\* C22 witness: credentials were read, the URL has one path segment, and
\* the call returned after the secret store was the only service called.
C22_Witness ==
    /\ rp_pc = "done"
    /\ rp_secret = "ok"
    /\ Len(UrlSegments) = 1
    /\ UrlSegments[1] # <<>>
    /\ rp_calls = <<[op |-> "get_secret_value"]>>
    /\ ErrorPayload(rp_result)

(***************************************************************************)
(* C23: when the tree fetch succeeded, a failure to fetch or decode the    *)
(* content of a dependency-manifest file does not fail the analysis:       *)
(* analyze_repository_structure still returns status success, with         *)
(* file_paths and the classification as they are for readable manifests,   *)
(* and the dependencies entry of that path is the sentinel string.         *)
(***************************************************************************)
TreeFetched ==
    /\ rp_pc = "done"
    /\ rp_secret = "ok"
    /\ OwnerAndRepoNamed
    /\ rp_hosting.tree_ok
    /\ ~BuildFileStructure(rp_hosting.tree).raised

C23_UnreadableManifestIsSentinel ==
    TreeFetched =>
        /\ "status" \in DOMAIN rp_result
        /\ rp_result.status = "success"
        /\ rp_result.file_paths = ExtractFilePaths(rp_hosting.tree)
        /\ rp_result.total_files = Len(rp_result.file_paths)
        /\ rp_result.analysis = Classify(rp_result.file_paths)
        /\ \A p \in ManifestPaths(rp_hosting.tree) :
              <<p, IF p \in rp_hosting.unreadable
                   THEN "[Unreadable]" ELSE FileText>>
                  \in rp_result.dependencies
        /\ Cardinality(rp_result.dependencies)
              = Cardinality(ManifestPaths(rp_hosting.tree))

\* C23 witness: of two manifests one is unreadable, and the analysis
\* returned.
C23_Witness ==
    /\ TreeFetched
    /\ Cardinality(ManifestPaths(rp_hosting.tree)) = 2
    /\ Cardinality(rp_hosting.unreadable) = 1
    /\ Len(rp_result.file_paths) = 3

(***************************************************************************)
(* C24: in every run of _generate_solution the suspect-identification      *)
(* model call precedes the synthesis model call, the suspect file's        *)
(* content is requested from the hosting API only if a suspect file was    *)
(* identified, and the synthesis model call is made exactly once, whether  *)
(* or not a suspect was identified or its content could be fetched.        *)
(***************************************************************************)
CallsOf(name) == {i \in 1..Len(sp_calls) : sp_calls[i] = name}

SuspectIdentified == problematic_file.some /\ problematic_file.val # <<>>

C24_CallOrder ==
    /\ \A i \in CallsOf("bedrock_simple") : \A j \in CallsOf("bedrock") : i < j
    /\ Cardinality(CallsOf("bedrock_simple")) <= 1
    /\ CallsOf("github_contents") # {} => SuspectIdentified
    /\ CallsOf("secrets") # {} => SuspectIdentified
    /\ Cardinality(CallsOf("bedrock")) = (IF sp_pc = "done" THEN 1 ELSE 0)

\* C24 witness: a suspect was identified, its content could not be fetched
\* for want of credentials, and the synthesis call was made.
C24_Witness ==
    /\ sp_pc = "done"
    /\ SuspectIdentified
    /\ sp_calls = <<"bedrock_simple", "secrets", "bedrock">>

(***************************************************************************)
(* C25: suspect identification gives the same result for a raw record and  *)
(* for the same record serialized inside a body field, for the error       *)
(* evidence and the repository structure independently: for one model      *)
(* answer the four shape combinations yield the same file list and the     *)
(* same suspect.                                                           *)
(***************************************************************************)
AcceptedShapes == {"raw", "wrapped"}

Reshaped(shape) == [shape |-> shape, record |-> sp_repo_structure.record]

SuspectFor(error_shape, repo_shape) ==
    CatchAll(IdentifyBody(error_shape, Reshaped(repo_shape), sp_response)).value

Identified ==
    /\ sp_pc # "identify"
    /\ sp_error_context \in AcceptedShapes
    /\ sp_repo_structure.shape \in AcceptedShapes

C25_ShapesEquivalent ==
    Identified =>
        \A e \in AcceptedShapes, s \in AcceptedShapes :
            /\ AvailableFiles(ParseBody(Reshaped(s)).data)
                  = AvailableFiles(sp_repo_structure.record)
            /\ SuspectFor(e, s) = problematic_file

\* C25 witness: both inputs came wrapped, and the suspect is a file whose
\* name holds a quote and a backslash.
C25_Witness ==
    /\ sp_pc # "identify"
    /\ sp_error_context = "wrapped"
    /\ sp_repo_structure.shape = "wrapped"
    /\ problematic_file = Some(<<"a", "\"", "\\", "b">>)

(***************************************************************************)
(* C26: if the language-model call made for suspect identification fails   *)
(* (the inference endpoint raises), _identify_problematic_file returns     *)
(* None for every supplied file list, and no file content is fetched       *)
(* afterwards.                                                             *)
(***************************************************************************)
C26_EndpointFailureMeansNoSuspect ==
    (sp_pc # "identify" /\ sp_bedrock_failed) =>
        /\ problematic_file = None
        /\ CallsOf("secrets") = {}
        /\ CallsOf("github_contents") = {}

(***************************************************************************)
(* C27: a log group whose fetch fails at any point (stream lookup, first   *)
(* page or a later page) contributes no events at all, no partial pages,   *)
(* while the events collected from earlier groups are retained unchanged.  *)
(***************************************************************************)
ListedOnce(log_group) ==
    Cardinality({i \in 1..Len(log_groups_list) :
                    log_groups_list[i] = log_group}) = 1

FetchFailedFor(log_group) ==
    \E i \in 1..Len(log_requests) :
        log_requests[i].log_group = log_group /\ FailedRequest(i)

NoEntryOf(log_group, logs) ==
    \A k \in 1..Len(logs) : logs[k].log_group # log_group

\* The step is a request that failed.
FailingStep ==
    /\ Len(log_requests') = Len(log_requests) + 1
    /\ LET request == log_requests'[Len(log_requests')]
       IN  IF IsLookup(request)
           THEN store[request.log_group].streams = "raise"
           ELSE request.raised

C27_FailedGroupContributesNothing ==
    /\ [](\A g \in Range(log_groups_list) :
            (ListedOnce(g) /\ FetchFailedFor(g)) =>
                (NoEntryOf(g, all_logs) /\ NoEntryOf(g, log_bundle.logs)))
    /\ [][FailingStep => all_logs' = all_logs]_vars

\* C27 witness: the first group delivered events, the second group failed
\* at a later page after a page with events, and the fetch returned.
C27_Witness ==
    /\ lg_pc = "fetched"
    /\ Len(log_groups_list) = 2
    /\ log_groups_list[1] # log_groups_list[2]
    /\ ~NoEntryOf(log_groups_list[1], all_logs)
    /\ \E i, j \in 1..Len(log_requests) :
          /\ i < j
          /\ IsRead(log_requests[i])
          /\ IsRead(log_requests[j])
          /\ log_requests[i].log_group = log_groups_list[2]
          /\ log_requests[j].log_group = log_groups_list[2]
          /\ log_requests[i].returned > 0
          /\ log_requests[j].raised

(***************************************************************************)
(* C28: for every provider for which the deployment stack writes a         *)
(* log-group parameter, every lookup key that _get_log_groups_from_ssm     *)
(* builds for that provider is a parameter name the stack wrote, so the    *)
(* resolution of a deployed stage never fails with a missing parameter.    *)
(***************************************************************************)
DeployedStage ==
    /\ pipeline_event.provider.some
    /\ pipeline_event.provider.val \in DeployedProviders
    /\ ssm = PipelineLoggerParams(PipelineName, StageName, ActionName,
                                  pipeline_event.provider.val)

C28_DeployedKeysResolve ==
    (DeployedStage /\ lg_pc \notin {"timeframe", "resolve"}) =>
        /\ \A i \in 1..Len(ssm_calls) : ssm_calls[i] \in DOMAIN ssm
        /\ ~ResolutionFailed

(***************************************************************************)
(* C29: for every listing of one consistent repository snapshot (each      *)
(* directory listed as a tree entry, each file as a blob entry), in any    *)
(* order of the entries, _build_file_structure does not raise and yields   *)
(* the same RepoTree, in which following the segments of each blob path    *)
(* ends at a leaf marker.                                                  *)
(***************************************************************************)
Segments(item) == Split(item.path, "/")

Entries(tree) == {tree[i] : i \in 1..Len(tree)}

\* Each path is listed once, and every directory above an entry is listed
\* as a tree entry.
ConsistentSnapshot(tree) ==
    /\ \A i, j \in 1..Len(tree) : tree[i].path = tree[j].path => i = j
    /\ \A item \in Entries(tree) :
          \A n \in 1..(Len(Segments(item)) - 1) :
              \E dir \in Entries(tree) :
                  /\ dir.type = "tree"
                  /\ Segments(dir) = SubSeq(Segments(item), 1, n)

\* The RepoTree of a snapshot: one node per entry, whatever the order.
SnapshotTree(tree) ==
    {<<Segments(item), IF item.type = "blob" THEN "file" ELSE "dir">> :
        item \in Entries(tree)}

C29_OrderIndependentTree ==
    (rp_pc = "done" /\ rp_secret = "ok" /\ OwnerAndRepoNamed
        /\ rp_hosting.tree_ok /\ ConsistentSnapshot(rp_hosting.tree)) =>
        /\ "status" \in DOMAIN rp_result
        /\ rp_result.file_structure = SnapshotTree(rp_hosting.tree)
        /\ \A item \in Entries(rp_hosting.tree) :
              item.type = "blob" =>
                  <<Segments(item), "file">> \in rp_result.file_structure

(***************************************************************************)
(* C30: the final response of orchestrate_analysis has status "error"      *)
(* only when an exception reached the top-level catch; error payloads      *)
(* returned by the repository analysis, the log analysis or the solution   *)
(* synthesis never change the final status, which is "success" even when   *)
(* all three stages returned an error payload.                             *)
(***************************************************************************)
\* The inputs on which a statement of the try block raises: a payload that
\* is no mapping, an event that is absent or whose detail is null, an event
\* json.dumps rejects, or no pipeline client.
RaisesInTryBlock ==
    \/ or_payload.shape # "event"
    \/ or_payload.detail = "null"
    \/ ~or_payload.serializable
    \/ ~or_env.client_ok

C30_StatusIgnoresStagePayloads ==
    Returned =>
        /\ or_result.status = "error" <=> RaisesInTryBlock
        /\ or_result.status = "success" <=> ~RaisesInTryBlock
        /\ or_result.status = "error" => StepRaised

\* C30 witness: the three stages each returned an error payload and the
\* final status is "success".
C30_Witness ==
    /\ Returned
    /\ StageFailed(or_repo_structure)
    /\ StageFailed(or_analyzed_logs)
    /\ StageFailed(or_solution)
    /\ or_result.status = "success"
====
